---- MODULE Spec2Model ----
(***************************************************************************)
(* A model of the gotftp TFTP engine.  The repository holds two server     *)
(* lineages:                                                               *)
(*   - the option-aware one ("session"): Server.Run starts one goroutine   *)
(*     per request datagram (clientPeer.run), which serves the transfer    *)
(*     on its own ephemeral socket (handleRRQ / handleWRQ over             *)
(*     processResponse);                                                   *)
(*   - the dispatcher one ("dispatcher"): Server.work hands every datagram *)
(*     of a remote address to that address's clientPeer.Dispatch.          *)
(* A file's bytes are identified by their offsets: a DATA payload is the   *)
(* pair (offset, length) of the bytes it carries.                          *)
(***************************************************************************)
EXTENDS Integers, Sequences, FiniteSets, TLC

VARIABLES
    fileSize,  \* size in bytes of the one file the file handler can open for reading
    exists,    \* names of the files the file handler finds (IsFileExist / open)
    req,       \* the first datagram the server received from the peer
    pc,        \* session lineage: where the session goroutine is suspended
    peer,      \* session lineage: clientPeer fields (blockSize, fileSize, timeouts)
    blockID,   \* session lineage: handleRRQ / handleWRQ local blockID (uint16)
    lastN,     \* session lineage: handleRRQ local n, bytes of the last rc.Read
    finalACK,  \* session lineage: handleWRQ local finalACK
    transferSize, \* session lineage: handleWRQ local transferSize
    rcOff,     \* session lineage: offset of the read stream rc
    err,       \* session lineage: error peer.run ends with ("nil" when none)
    dpeer,     \* dispatcher lineage: clientPeer fields of the peer of address P
    opened,    \* files the handler's write-open (WriteFile) was called for
    writes,    \* writes made to the write stream, in order
    sent,      \* datagrams the server transmitted, in order
    clean,     \* every datagram after the request was the ACK of the DATA sent last
    acked,     \* while clean: the block-id of the last ACK delivered (0: none yet)
    outstanding, \* block-id of the DATA sent last while its ACK has not arrived (0: none)
    errored,   \* dispatcher lineage: an ERROR datagram of the peer has been dispatched
    srv,       \* dispatcher Server: closed flag and where Run, work and the reaper stand
    queue,     \* dispatcher Server: the datagrams in packetChan, oldest first
    peerMap,   \* dispatcher Server: the peer registry, remote address -> session
    client,    \* the client operation under way (ReadFile, WriteFile, Get or Put)
    codec,     \* the packet being encoded and decoded, its bytes and the result
    listener,  \* option-aware Server.Run: its socket and its read loop
    net        \* the datagrams the server has sent to the client of a Get

vars == <<fileSize, exists, req, pc, peer, blockID, lastN, finalACK,
          transferSize, rcOff, err, dpeer, opened, writes, sent, clean, acked,
          outstanding, errored, srv, queue, peerMap, client, codec, listener, net>>

\* The variables of the dispatcher Server and of the client.
svars == <<srv, queue, peerMap>>

-----------------------------------------------------------------------------
\* Bounds of the model.

\* Files hold up to MaxBlocks full blocks (plus a tail).
MaxBlocks == 2

\* At most MaxSent datagrams are transmitted in one run.
MaxSent == 3

-----------------------------------------------------------------------------
\* Program constants (protocol.go).

defaultBlockSize == 512
minBlockSize == 8
maxBlockSize == 65464
minTimeout == 1
maxTimeout == 255
maxTransferSize == defaultBlockSize * 65535

readFileReqOp == 1
writeFileReqOp == 2
dataReqOp == 3
ackReqOp == 4
errorReqOp == 5
oackReqOp == 6

netASCIIMode == "netascii"
binaryMode == "octet"
blockSizeOptName == "blksize"
timeoutOptName == "timeout"
transferSizeOptName == "tsize"

errInvalidReq == "invalid request"
errBlockSizeOpt == "invalid blocksize opt"
errTimeoutOpt == "invalid timeout value opt"

\* Go's nil error.
NoErr == "nil"
\* strconv.Atoi's error on a string that is no decimal integer.
errAtoi == "strconv.Atoi: invalid syntax"
\* The net.Error of a read whose deadline passed.
errIOTimeout == "i/o timeout"
\* io.EOF
errEOF == "EOF"

\* Conversions to Go's unsigned 16-bit integers.
uint16(n) == n % 65536

Min(a, b) == IF a < b THEN a ELSE b

-----------------------------------------------------------------------------
\* Datagrams.  An option value is the string of the wire: either a decimal
\* integer (num, with its value v) or some other text.

P == "P"   \* the remote address of the requesting peer
Q == "Q"   \* another remote address

Num(v) == [num |-> TRUE, v |-> v]
Text == [num |-> FALSE, v |-> 0]
Opt(name, value) == [name |-> name, value |-> value]

Rq(op, file, mode, opts) == [op |-> op, file |-> file, mode |-> mode, opts |-> opts]
Data(block, off, len) == [op |-> dataReqOp, block |-> block, off |-> off, len |-> len]
Ack(block) == [op |-> ackReqOp, block |-> block]
Error(code, msg) == [op |-> errorReqOp, code |-> code, msg |-> msg]
OAck(options) == [op |-> oackReqOp, options |-> options]
\* The ERROR datagram errorPacket.Write produces: its code takes 4 bytes.
ErrorReq(code, msg) == [op |-> errorReqOp, code |-> code, msg |-> msg, codeLen |-> 4]
\* A datagram whose opcode is none of 1..6.
BadOp == [op |-> 7]
\* A datagram of fewer than 2 bytes: it holds no opcode.
Short == [op |-> -1]
\* No datagram: the read timed out.
Timeout == [op |-> -2]
NoReq == [op |-> 0]

\* strconv.Atoi
Atoi(value) == [err |-> ~value.num, n |-> value.v]

-----------------------------------------------------------------------------
\* The packet codec (protocol.go).  A decoded packet is a Go value: its type,
\* whether it is held by pointer, and its fields.

NilPacket == [type |-> "nil", ptr |-> FALSE]

\* rwPacket.Read: the loop over the option pairs.  hasOption is a field
\* of rwPacket that no statement assigns: it keeps its zero value.
RECURSIVE rwPacketReadOptions(_, _)
rwPacketReadOptions(p, opts) ==
    IF opts = <<>> THEN [err |-> NoErr, p |-> p]
    ELSE LET o == Head(opts)
             a == Atoi(o.value)
         IN CASE o.name = blockSizeOptName ->
                   IF a.err THEN [err |-> errAtoi, p |-> p]
                   ELSE IF a.n < minBlockSize THEN [err |-> errBlockSizeOpt, p |-> p]
                   ELSE rwPacketReadOptions(
                            [p EXCEPT !.blockSize = uint16(Min(a.n, maxBlockSize)),
                                      !.hasBlockSize = TRUE], Tail(opts))
              [] o.name = timeoutOptName ->
                   IF a.err THEN [err |-> errAtoi, p |-> p]
                   ELSE IF uint16(a.n) < minTimeout \/ uint16(a.n) > maxTimeout
                        THEN [err |-> errTimeoutOpt, p |-> p]
                   ELSE rwPacketReadOptions(
                            [p EXCEPT !.timeout = a.n, !.hasTimeout = TRUE], Tail(opts))
              [] o.name = transferSizeOptName ->
                   IF a.err THEN [err |-> errAtoi, p |-> p]
                   ELSE rwPacketReadOptions(
                            [p EXCEPT !.transferSize = a.n, !.hasTransferSize = TRUE],
                            Tail(opts))
              [] OTHER -> rwPacketReadOptions(p, Tail(opts))

\* rwPacket.Read
rwPacketRead(d) ==
    rwPacketReadOptions(
        [type |-> "rwPacket", ptr |-> TRUE, opcode |-> d.op,
         fileName |-> d.file, transferMode |-> d.mode,
         hasOption |-> FALSE,
         hasBlockSize |-> FALSE, blockSize |-> 0,
         hasTransferSize |-> FALSE, transferSize |-> 0,
         hasTimeout |-> FALSE, timeout |-> 0],
        d.opts)

\* The bytes of an ERROR datagram after its opcode: the 2-byte code, the
\* message and its NUL.
errorBody(d) ==
    IF "codeLen" \in DOMAIN d
    THEN <<d.code \div 16777216, (d.code \div 65536) % 256,
           (d.code \div 256) % 256, d.code % 256>> \o d.msg \o <<0>>
    ELSE <<d.code \div 256, d.code % 256>> \o d.msg \o <<0>>

\* The index of the first NUL of b at or after i, 0 when there is none.
RECURSIVE IndexNul(_, _)
IndexNul(b, i) ==
    IF i > Len(b) THEN 0 ELSE IF b[i] = 0 THEN i ELSE IndexNul(b, i + 1)

\* errorPacket.Read: the code is a uint32, read from 4 bytes; the message is
\* what follows, up to its NUL.
errorPacketRead(d) ==
    LET b == errorBody(d)
    IN IF Len(b) < 4 THEN [err |-> "unexpected EOF", p |-> NilPacket]
       ELSE LET nul == IndexNul(b, 5)
            IN IF nul = 0 THEN [err |-> errEOF, p |-> NilPacket]
               ELSE [err |-> NoErr,
                     p |-> [type |-> "errorPacket", ptr |-> TRUE,
                            code |-> ((b[1] * 256 + b[2]) * 256 + b[3]) * 256 + b[4],
                            msg |-> SubSeq(b, 5, nul - 1)]]

\* getRequestPacket: the decoded packet of a datagram, or an error.  An RRQ
\* with an empty file name or a mode that is neither netascii nor octet
\* returns the nil packet and the nil error.
getRequestPacket(d) ==
    CASE d.op = Short.op -> [err |-> errInvalidReq, p |-> NilPacket]
      [] d.op = readFileReqOp ->
           LET r == rwPacketRead(d)
           IN IF r.err # NoErr THEN [err |-> r.err, p |-> NilPacket]
              ELSE IF r.p.fileName = "" \/ r.p.transferMode = ""
                      \/ (r.p.transferMode # netASCIIMode /\ r.p.transferMode # binaryMode)
                   THEN [err |-> NoErr, p |-> NilPacket]
              ELSE r
      [] d.op = writeFileReqOp ->
           LET r == rwPacketRead(d)
           IN IF r.err # NoErr THEN [err |-> r.err, p |-> NilPacket]
              ELSE IF r.p.fileName = "" \/ r.p.transferMode = ""
                      \/ (r.p.transferMode # netASCIIMode /\ r.p.transferMode # binaryMode)
                   THEN [err |-> errInvalidReq, p |-> NilPacket]
              ELSE r
      [] d.op = dataReqOp ->
           [err |-> NoErr,
            p |-> [type |-> "dataPacket", ptr |-> TRUE, blockID |-> d.block,
                   data |-> [off |-> d.off, len |-> d.len]]]
      [] d.op = ackReqOp ->
           [err |-> NoErr, p |-> [type |-> "ackPacket", ptr |-> TRUE, blockID |-> d.block]]
      [] d.op = oackReqOp ->
           [err |-> NoErr, p |-> [type |-> "oackPacket", ptr |-> TRUE, options |-> d.options]]
      [] d.op = errorReqOp -> errorPacketRead(d)
      [] OTHER -> [err |-> errInvalidReq, p |-> NilPacket]

\* The Write method of each packet type: the datagram it encodes to.
\* rwPacket.Write writes the opcode, the file name and the mode.
packetWrite(p) ==
    CASE p.type = "rwPacket" -> Rq(p.opcode, p.fileName, p.transferMode, <<>>)
      [] p.type = "dataPacket" -> Data(p.blockID, p.data.off, p.data.len)
      [] p.type = "ackPacket" -> Ack(p.blockID)
      [] p.type = "oackPacket" -> OAck(p.options)
      [] p.type = "errorPacket" -> ErrorReq(p.code, p.msg)

\* packetReq: the bytes of req when it implements the packet interface, else
\* nil (an empty sequence here).  The methods of every packet type have
\* pointer receivers, so only a pointer implements the interface.
packetReq(p) == IF p.type # "nil" /\ p.ptr THEN <<packetWrite(p)>> ELSE <<>>

\* One transmitted datagram: what and to whom.
Sent(d, to) == [d |-> d, to |-> to]

\* sendPacket: the datagrams conn.WriteTo transmits for packet p.
sendPacket(addr, p) ==
    LET b == packetReq(p)
    IN IF b # <<>> THEN <<Sent(b[1], addr)>> ELSE <<>>

\* sendErrorReq: eq is an errorPacket value, not a pointer to one.
sendErrorReq(addr, msg) ==
    LET eq == [type |-> "errorPacket", ptr |-> FALSE, code |-> 0, msg |-> msg]
        b == packetReq(eq)
    IN IF b # <<>> THEN <<Sent(b[1], addr)>> ELSE <<>>

-----------------------------------------------------------------------------
\* The file handler (the ServerHandler / FileHandler of cmd/server).

\* The file that exists, a file that does not, and a path whose directory
\* does not exist (it cannot be created either).
FileNames == {"f", "new", "nodir/x"}
errNotExist == "open: no such file or directory"

\* ReadFile: os.OpenFile(O_RDONLY) succeeds on the files that exist.
CanReadFile(ex, name) == name \in ex
\* WriteFile: os.OpenFile(O_WRONLY|O_CREATE) creates the file when it can.
CanWriteFile(name) == name # "nodir/x"

\* Read on a stream of size bytes at offset off into a buffer of n bytes:
\* the count read, and io.EOF when nothing is left.
StreamRead(size, off, n) ==
    LET left == IF off < size THEN size - off ELSE 0
    IN [n |-> Min(n, left), err |-> IF left = 0 /\ n > 0 THEN errEOF ELSE NoErr]

-----------------------------------------------------------------------------
\* The session lineage (cmd/server/server.go: clientPeer of the option-aware
\* server).  A session state is the record of the variables a session
\* goroutine works on; each operator below is the code of one function on it.

Cur == [pc |-> pc, peer |-> peer, blockID |-> blockID, lastN |-> lastN,
        finalACK |-> finalACK, transferSize |-> transferSize, rcOff |-> rcOff,
        err |-> err, exists |-> exists, opened |-> opened, writes |-> writes,
        sent |-> sent]

Install(s) ==
    /\ pc' = s.pc
    /\ peer' = s.peer
    /\ blockID' = s.blockID
    /\ lastN' = s.lastN
    /\ finalACK' = s.finalACK
    /\ transferSize' = s.transferSize
    /\ rcOff' = s.rcOff
    /\ err' = s.err
    /\ exists' = s.exists
    /\ opened' = s.opened
    /\ writes' = s.writes
    /\ sent' = s.sent

\* newClientPeer, with the timeouts (seconds) main gives NewServer.
newSessionPeer(raddr) ==
    [addr |-> raddr, readTimeout |-> 2, writeTimeout |-> 3,
     blockSize |-> defaultBlockSize, fileSize |-> 0]

\* The session ends: the handler returns e and run closes the socket.
End(s, e) == [s EXCEPT !.pc = "done", !.err = e]

applyBlockSizeOpt(pr, rq) ==
    IF rq.hasBlockSize
    THEN LET bs == IF rq.blockSize < defaultBlockSize THEN rq.blockSize
                   ELSE defaultBlockSize
         IN [err |-> NoErr, opt |-> <<Opt(blockSizeOptName, bs)>>,
             peer |-> [pr EXCEPT !.blockSize = bs]]
    ELSE [err |-> NoErr, opt |-> <<>>, peer |-> pr]

applyTimeoutOpt(pr, rq) ==
    IF rq.hasTimeout
    THEN [err |-> NoErr, opt |-> <<Opt(timeoutOptName, rq.timeout)>>,
          peer |-> [pr EXCEPT !.readTimeout = rq.timeout, !.writeTimeout = rq.timeout]]
    ELSE [err |-> NoErr, opt |-> <<>>, peer |-> pr]

applyTransferSizeOpt(pr, rq) ==
    IF rq.hasTransferSize
    THEN IF rq.transferSize = 0
         THEN [err |-> NoErr, opt |-> <<Opt(transferSizeOptName, pr.fileSize)>>,
               peer |-> pr]
         ELSE IF rq.transferSize > maxTransferSize
              THEN [err |-> "transferSize is too big", opt |-> <<>>, peer |-> pr]
              ELSE [err |-> NoErr, opt |-> <<Opt(transferSizeOptName, rq.transferSize)>>,
                    peer |-> [pr EXCEPT !.fileSize = rq.transferSize]]
    ELSE [err |-> NoErr, opt |-> <<>>, peer |-> pr]

\* applyOptions: the three appliers in order, stopping at the first error.
applyOptions(pr, rq) ==
    LET a == applyBlockSizeOpt(pr, rq)
    IN IF a.err # NoErr THEN [err |-> a.err, opts |-> <<>>, peer |-> a.peer]
       ELSE LET b == applyTimeoutOpt(a.peer, rq)
            IN IF b.err # NoErr THEN [err |-> b.err, opts |-> <<>>, peer |-> b.peer]
               ELSE LET c == applyTransferSizeOpt(b.peer, rq)
                    IN IF c.err # NoErr
                       THEN [err |-> c.err, opts |-> <<>>, peer |-> c.peer]
                       ELSE [err |-> NoErr, opts |-> a.opt \o b.opt \o c.opt,
                             peer |-> c.peer]

\* A changed rrqFinalACK: the transfer ends only on an empty read.
rrqFinalACKOnEmpty(n, blockSize) == n = 0

\* handleRRQ's test after the ACK of DATA(blockID): the block just
\* acknowledged was the final one when the read that filled it came short.
rrqFinalACK(n, blockSize) == n < blockSize

\* handleRRQ, one turn of its loop up to the wait for the ACK: read the next
\* block from rc and send it as DATA(blockID).
rrqSendData(s) ==
    LET r == StreamRead(fileSize, s.rcOff, s.peer.blockSize)
        dq == [type |-> "dataPacket", ptr |-> TRUE, blockID |-> s.blockID,
               data |-> [off |-> s.rcOff, len |-> r.n]]
    IN [s EXCEPT !.sent = @ \o sendPacket(s.peer.addr, dq),
                 !.rcOff = @ + r.n,
                 !.lastN = r.n,
                 !.pc = "rrq"]

\* handleRRQNegotiation, up to its wait for ACK(0).
handleRRQNegotiation(s, rq) ==
    IF rq.hasOption
    THEN LET a == applyOptions(s.peer, rq)
         IN IF a.err # NoErr
            THEN End([s EXCEPT !.peer = a.peer,
                               !.sent = @ \o sendErrorReq(s.peer.addr, a.err)],
                     a.err)
            ELSE [s EXCEPT !.peer = a.peer,
                           !.sent = @ \o sendPacket(s.peer.addr,
                                         [type |-> "oackPacket", ptr |-> TRUE,
                                          options |-> a.opts]),
                           !.pc = "negotiate"]
    ELSE [s EXCEPT !.pc = "negotiated"]

\* handleRRQ, up to its first wait.
handleRRQ(s, rq) ==
    IF ~CanReadFile(s.exists, rq.fileName)
    THEN End([s EXCEPT !.sent = @ \o sendErrorReq(s.peer.addr, errNotExist)],
             errNotExist)
    ELSE LET s1 == [s EXCEPT !.peer.fileSize = fileSize, !.rcOff = 0]
             s2 == handleRRQNegotiation(s1, rq)
         IN IF s2.pc = "negotiated"
            THEN rrqSendData([s2 EXCEPT !.blockID = 1])
            ELSE s2

\* handleWRQNegotiation
handleWRQNegotiation(s, rq) ==
    IF rq.hasOption
    THEN LET a == applyOptions(s.peer, rq)
         IN IF a.err # NoErr
            THEN End([s EXCEPT !.peer = a.peer,
                               !.sent = @ \o sendErrorReq(s.peer.addr, a.err)],
                     a.err)
            ELSE [s EXCEPT !.peer = a.peer,
                           !.sent = @ \o sendPacket(s.peer.addr,
                                         [type |-> "oackPacket", ptr |-> TRUE,
                                          options |-> a.opts]),
                           !.pc = "negotiated"]
    ELSE [s EXCEPT !.sent = @ \o sendPacket(s.peer.addr,
                                    [type |-> "ackPacket", ptr |-> TRUE, blockID |-> 0]),
                   !.pc = "negotiated"]

\* handleWRQ, up to its first wait.
handleWRQ(s, rq) ==
    IF ~CanWriteFile(rq.fileName)
    THEN End([s EXCEPT !.sent = @ \o sendErrorReq(s.peer.addr, errNotExist)],
             errNotExist)
    ELSE LET s1 == [s EXCEPT !.opened = @ \cup {rq.fileName},
                             !.exists = @ \cup {rq.fileName}]
             s2 == handleWRQNegotiation(s1, rq)
         IN IF s2.pc = "negotiated"
            THEN LET fs == IF s2.peer.fileSize = 0 THEN maxTransferSize
                           ELSE s2.peer.fileSize
                 IN [s2 EXCEPT !.peer.fileSize = fs,
                               !.blockID = 1, !.finalACK = FALSE, !.transferSize = 0,
                               !.pc = IF 0 < fs THEN "wrq" ELSE "done"]
            ELSE s2

\* clientPeer.run on the datagram Server.Run read from raddr.
run(s, raddr, d) ==
    LET s0 == [s EXCEPT !.peer = newSessionPeer(raddr)]
        r == getRequestPacket(d)
    IN IF r.err # NoErr
       THEN End([s0 EXCEPT !.sent = @ \o sendErrorReq(raddr, r.err)], r.err)
       ELSE IF r.p.type = "rwPacket" /\ r.p.opcode = readFileReqOp
            THEN handleRRQ(s0, r.p)
       ELSE IF r.p.type = "rwPacket" /\ r.p.opcode = writeFileReqOp
            THEN handleWRQ(s0, r.p)
       ELSE End(s0, NoErr)

\* The error processResponse makes of a received ERROR packet
\* (errors.New(t.msg)).
errRemote == "error packet received"

\* A changed wrqBlockMatches: every DATA is taken as the awaited one.
wrqBlockAny(dqBlockID, cur) == TRUE

\* handleWRQ's processor: the DATA received is the awaited block.
wrqBlockMatches(dqBlockID, cur) == dqBlockID = cur

\* The processor callbacks handed to processResponse, by the place the
\* session waits at: the result is "goon" (keep reading), "nil" (return
\* false, nil) and the session state after the callback.
processor(s, p) ==
    CASE s.pc = "negotiate" ->
           IF p.type = "ackPacket" /\ p.blockID = 0
           THEN [res |-> "nil", s |-> s] ELSE [res |-> "goon", s |-> s]
      [] s.pc = "rrq" ->
           IF p.type = "ackPacket" /\ p.blockID = s.blockID
           THEN [res |-> "nil", s |-> s] ELSE [res |-> "goon", s |-> s]
      [] s.pc = "wrq" ->
           IF p.type = "dataPacket"
           THEN IF ~wrqBlockMatches(p.blockID, s.blockID) THEN [res |-> "goon", s |-> s]
                ELSE [res |-> "nil",
                      s |-> [s EXCEPT
                               !.writes = Append(@, [block |-> p.blockID,
                                                     off |-> s.transferSize,
                                                     len |-> p.data.len]),
                               !.finalACK = @ \/ p.data.len < s.peer.blockSize,
                               !.transferSize = @ + p.data.len]]
           ELSE [res |-> "goon", s |-> s]
      [] s.pc = "wrqFinal" ->
           IF p.type = "dataPacket" /\ p.blockID = s.blockID
           THEN [res |-> "nil",
                 s |-> [s EXCEPT !.sent = @ \o sendPacket(s.peer.addr,
                                               [type |-> "ackPacket", ptr |-> TRUE,
                                                blockID |-> s.blockID])]]
           ELSE [res |-> "nil", s |-> s]

\* getResponse and one turn of processResponse's loop on datagram d: "err"
\* with the error it returns, "nil" when it returns nil, "goon" when it
\* reads on.  The source address getResponse returns is stored only through
\* raddr, which the server's sessions pass as nil.
processResponse(s, d) ==
    LET r == IF d = Timeout THEN [err |-> errIOTimeout, p |-> NilPacket]
             ELSE getRequestPacket(d)
    IN IF r.err # NoErr THEN [res |-> "err", err |-> r.err, s |-> s]
       ELSE IF r.p.type = "errorPacket"
            THEN [res |-> "err", err |-> errRemote, s |-> s]
       ELSE LET q == processor(s, r.p)
            IN [res |-> q.res, err |-> NoErr, s |-> q.s]

\* What the handler does once processResponse has returned, up to its next
\* wait or its end.
afterResponse(s0, d) ==
    LET r == processResponse(s0, d)
        s == r.s
    IN IF r.res = "goon" THEN s
       ELSE CASE s.pc = "negotiate" ->
                   IF r.res = "err" THEN End(s, r.err)
                   ELSE rrqSendData([s EXCEPT !.blockID = 1])
              [] s.pc = "rrq" ->
                   IF r.res = "err" THEN End(s, r.err)
                   ELSE IF rrqFinalACK(s.lastN, s.peer.blockSize) THEN End(s, NoErr)
                   ELSE rrqSendData([s EXCEPT !.blockID = uint16(@ + 1)])
              [] s.pc = "wrq" ->
                   IF r.res = "err" THEN End(s, r.err)
                   ELSE LET s1 == [s EXCEPT !.sent = @ \o sendPacket(s.peer.addr,
                                                [type |-> "ackPacket", ptr |-> TRUE,
                                                 blockID |-> s.blockID])]
                        IN IF s1.finalACK THEN [s1 EXCEPT !.pc = "wrqFinal"]
                           ELSE IF s1.transferSize < s1.peer.fileSize
                                THEN [s1 EXCEPT !.blockID = uint16(@ + 1)]
                                ELSE End([s1 EXCEPT !.blockID = uint16(@ + 1)], NoErr)
              [] s.pc = "wrqFinal" -> End(s, NoErr)

-----------------------------------------------------------------------------
\* The dispatcher lineage (gotftp/peer.go: the clientPeer that Server.work
\* dispatches the datagrams of one remote address to).

\* strings.ToLower, on the names and modes the model uses.
ToLower(str) ==
    CASE str = "BLKSIZE" -> "blksize"
      [] str = "OCTET" -> "octet"
      [] OTHER -> str

\* A stream field of clientPeer: open says that the field is not nil,
\* closed that the stream's Close has been called, nilFile that the field
\* holds the nil *os.File of an os.OpenFile that failed (the handler's
\* return converts it to an interface value that is not nil).
NoStream == [open |-> FALSE, file |-> "", off |-> 0, closed |-> FALSE,
             nilFile |-> FALSE]

\* What is left in the field by a WriteFile that failed.
NilFileStream == [open |-> TRUE, file |-> "", off |-> 0, closed |-> FALSE,
                  nilFile |-> TRUE]

\* The error of every method of a nil *os.File (os.ErrInvalid).
errInvalid == "invalid argument"

\* The error of a Read, Seek or Write on a closed file.
errClosed == "file already closed"

\* clientPeer.Close: each stream that is not nil is closed; the fields
\* keep their values.
peerClose(p) ==
    [p EXCEPT !.readSeekCloser.closed =
                  @ \/ (p.readSeekCloser.open /\ ~p.readSeekCloser.nilFile),
              !.writeSeekCloser.closed =
                  @ \/ (p.writeSeekCloser.open /\ ~p.writeSeekCloser.nilFile)]

\* newClientPeer
newClientPeer(remoteAddr) ==
    [remoteAddr |-> remoteAddr, blockSize |-> 512, timeout |-> 10, transferSize |-> 0,
     readSeekCloser |-> NoStream, writeSeekCloser |-> NoStream]

errNotDefinedCode == 0
errFileNotFoundPacket == Error(1, "")
errIllegalOperationPacket == Error(4, "")
errFileExistPacket == Error(6, "")

\* The end of what has been written to the file under creation. A write of
\* no bytes after a seek beyond the end leaves the size as it was.
RECURSIVE WrittenSize(_)
WrittenSize(ws) ==
    IF ws = <<>> THEN 0
    ELSE LET w == ws[Len(ws)]
             rest == WrittenSize(SubSeq(ws, 1, Len(ws) - 1))
         IN IF w.len > 0 /\ w.off + w.len > rest THEN w.off + w.len ELSE rest

\* The size of a file of the handler.
SizeOf(name, ws) == IF name = "f" THEN fileSize ELSE WrittenSize(ws)

\* What a call of Dispatch works on: the session, the files, what has been
\* sent, whether the socket has been closed (connClosed) and whether the
\* reaper closes the session in the middle of the call (reap).
DOf(p, snt, connClosed, reap) ==
    [p |-> p, exists |-> exists, opened |-> opened, writes |-> writes,
     sent |-> snt, connClosed |-> connClosed, reap |-> reap]

DCur == DOf(dpeer, sent, FALSE, FALSE)

\* conn.WriteTo(b, p.remoteAddr): on a closed socket it returns an error,
\* which every caller ignores, and nothing is sent.
WriteTo(D, d) ==
    IF D.connClosed THEN D
    ELSE [D EXCEPT !.sent = Append(@, Sent(d, D.p.remoteAddr))]

\* The reaper's v.Close() when it runs in the middle of the call.
reaped(D) == IF D.reap THEN [D EXCEPT !.p = peerClose(@)] ELSE D

\* sendError: an ERROR of code 0 with the error's text.
sendError(D, e) == WriteTo(D, Error(errNotDefinedCode, e))

\* sendOptionAck: the OACK always names the three options.
sendOptionAck(D, blkSize, timeout, tsize) ==
    WriteTo(D, OAck(<<Opt("blksize", blkSize), Opt("timeout", timeout),
                      Opt("tsize", tsize)>>))

errBlksizeSmall == "the value of blksize is too small"
errTimeoutInvalid == "the value of timeout is invalid"
errUnknownOption == "unknown option"

\* A changed handshakeOptions: a blksize below 8 is not refused.
RECURSIVE handshakeOptionsNoMin(_, _, _, _)
handshakeOptionsNoMin(p, opts, write, ws) ==
    IF opts = <<>> THEN [err |-> NoErr, p |-> p]
    ELSE LET o == Head(opts)
             name == ToLower(o.name)
             a == Atoi(o.value)
         IN CASE name = "blksize" ->
                   IF a.err THEN [err |-> errAtoi, p |-> p]
                   ELSE handshakeOptionsNoMin(
                            IF a.n < p.blockSize THEN [p EXCEPT !.blockSize = a.n] ELSE p,
                            Tail(opts), write, ws)
              [] name = "timeout" ->
                   IF a.err THEN [err |-> errAtoi, p |-> p]
                   ELSE IF a.n < 1 THEN [err |-> errTimeoutInvalid, p |-> p]
                   ELSE handshakeOptionsNoMin(
                            IF a.n < p.timeout THEN [p EXCEPT !.timeout = a.n] ELSE p,
                            Tail(opts), write, ws)
              [] name = "tsize" ->
                   IF write
                   THEN IF a.err THEN [err |-> errAtoi, p |-> p]
                        ELSE handshakeOptionsNoMin([p EXCEPT !.transferSize = a.n],
                                              Tail(opts), write, ws)
                   ELSE IF p.readSeekCloser.closed
                   THEN handshakeOptionsNoMin(p, Tail(opts), write, ws)
                   ELSE LET size == SizeOf(p.readSeekCloser.file, ws)
                        IN handshakeOptionsNoMin(
                               [p EXCEPT !.readSeekCloser.off = size,
                                         !.transferSize = size],
                               Tail(opts), write, ws)
              [] OTHER -> [err |-> errUnknownOption, p |-> p]

\* The option loop of HandleReadHandshake (write = FALSE) and of
\* HandleWriteHandshake (write = TRUE): the peer after it and the error it
\* stopped at.  The error of the Seek of the read side's tsize is assigned to
\* a variable of the case's own block: the loop goes on without it.
RECURSIVE handshakeOptions(_, _, _, _)
handshakeOptions(p, opts, write, ws) ==
    IF opts = <<>> THEN [err |-> NoErr, p |-> p]
    ELSE LET o == Head(opts)
             name == ToLower(o.name)
             a == Atoi(o.value)
         IN CASE name = "blksize" ->
                   IF a.err THEN [err |-> errAtoi, p |-> p]
                   ELSE IF a.n < 8 THEN [err |-> errBlksizeSmall, p |-> p]
                   ELSE handshakeOptions(
                            IF a.n < p.blockSize THEN [p EXCEPT !.blockSize = a.n] ELSE p,
                            Tail(opts), write, ws)
              [] name = "timeout" ->
                   IF a.err THEN [err |-> errAtoi, p |-> p]
                   ELSE IF a.n < 1 THEN [err |-> errTimeoutInvalid, p |-> p]
                   ELSE handshakeOptions(
                            IF a.n < p.timeout THEN [p EXCEPT !.timeout = a.n] ELSE p,
                            Tail(opts), write, ws)
              [] name = "tsize" ->
                   IF write
                   THEN IF a.err THEN [err |-> errAtoi, p |-> p]
                        ELSE handshakeOptions([p EXCEPT !.transferSize = a.n],
                                              Tail(opts), write, ws)
                   ELSE IF p.readSeekCloser.closed
                   THEN handshakeOptions(p, Tail(opts), write, ws)
                   ELSE LET size == SizeOf(p.readSeekCloser.file, ws)
                        IN handshakeOptions(
                               [p EXCEPT !.readSeekCloser.off = size,
                                         !.transferSize = size],
                               Tail(opts), write, ws)
              [] OTHER -> [err |-> errUnknownOption, p |-> p]

\* clientPeer.HandleReadHandshake
HandleReadHandshake(D, d) ==
    IF d.file \notin D.exists THEN WriteTo(D, errFileNotFoundPacket)
    ELSE LET D1 == reaped(IF ~D.p.readSeekCloser.open
                   THEN [D EXCEPT !.p.readSeekCloser =
                                      [open |-> TRUE, file |-> d.file, off |-> 0, closed |-> FALSE,
                                       nilFile |-> FALSE]]
                   ELSE D)
         IN IF ToLower(d.mode) # "octet"
            THEN WriteTo(D1, errIllegalOperationPacket)
            ELSE LET hasOption == d.opts # <<>>
                     o == handshakeOptions(D1.p, d.opts, FALSE, D1.writes)
                     D2 == [D1 EXCEPT !.p = o.p]
                 IN IF o.err # NoErr THEN sendError(D2, o.err)
                    ELSE IF hasOption
                    THEN sendOptionAck(D2, D2.p.blockSize, D2.p.timeout,
                                       D2.p.transferSize)
                    ELSE LET rs == D2.p.readSeekCloser
                             r == IF rs.closed THEN [n |-> 0, err |-> errClosed]
                                  ELSE StreamRead(SizeOf(rs.file, D2.writes), rs.off,
                                                  D2.p.blockSize)
                         IN IF r.err # NoErr THEN sendError(D2, r.err)
                            ELSE WriteTo([D2 EXCEPT !.p.readSeekCloser.off = @ + r.n],
                                         Data(1, rs.off, r.n))

\* clientPeer.HandleReadAck
HandleReadAck(D0, d) ==
    IF ~D0.p.readSeekCloser.open THEN WriteTo(D0, errIllegalOperationPacket)
    ELSE LET D == reaped(D0) IN
    IF D.p.readSeekCloser.closed THEN sendError(D, errClosed)
    ELSE LET rs == D.p.readSeekCloser
             size == SizeOf(rs.file, D.writes)
             at == d.block * D.p.blockSize
         IN IF size < at THEN [D EXCEPT !.p.readSeekCloser.off = size]
            ELSE LET r == StreamRead(size, at, D.p.blockSize)
                 IN WriteTo([D EXCEPT !.p.readSeekCloser.off = at + r.n],
                            Data(uint16(d.block + 1), at, r.n))

\* clientPeer.HandleWriteHandshake
HandleWriteHandshake(D, d) ==
    IF d.file \in D.exists THEN WriteTo(D, errFileExistPacket)
    ELSE IF ~D.p.writeSeekCloser.open /\ ~CanWriteFile(d.file)
    THEN sendError([D EXCEPT !.p.writeSeekCloser = NilFileStream], errNotExist)
    ELSE LET D1 == reaped(IF ~D.p.writeSeekCloser.open
                   THEN [D EXCEPT !.p.writeSeekCloser =
                                      [open |-> TRUE, file |-> d.file, off |-> 0, closed |-> FALSE,
                                       nilFile |-> FALSE],
                                  !.opened = @ \cup {d.file},
                                  !.exists = @ \cup {d.file}]
                   ELSE D)
         IN IF ToLower(d.mode) # "octet"
            THEN WriteTo(D1, errIllegalOperationPacket)
            ELSE LET hasOption == d.opts # <<>>
                     o == handshakeOptions(D1.p, d.opts, TRUE, D1.writes)
                     D2 == [D1 EXCEPT !.p = o.p]
                 IN IF o.err # NoErr THEN sendError(D2, o.err)
                    ELSE IF hasOption
                    THEN sendOptionAck(D2, D2.p.blockSize, D2.p.timeout,
                                       D2.p.transferSize)
                    ELSE WriteTo(D2, Ack(0))

\* clientPeer.HandleWriteData
HandleWriteData(D0, d) ==
    IF ~D0.p.writeSeekCloser.open THEN WriteTo(D0, errIllegalOperationPacket)
    ELSE IF d.block = 0 THEN WriteTo(D0, errIllegalOperationPacket)
    ELSE IF D0.p.writeSeekCloser.nilFile THEN sendError(D0, errInvalid)
    ELSE LET D == reaped(D0) IN
    IF D.p.writeSeekCloser.closed THEN sendError(D, errClosed)
    ELSE LET at == (d.block - 1) * D.p.blockSize
         IN WriteTo([D EXCEPT !.writes = Append(@, [block |-> d.block, off |-> at,
                                                    len |-> d.len]),
                              !.p.writeSeekCloser.off = at + d.len],
                    Ack(d.block))

\* clientPeer.Dispatch: by the opcode of the datagram; a datagram without
\* an opcode, an ERROR and any other opcode change nothing.
DispatchOn(D, d) ==
    CASE d.op = 1 -> HandleReadHandshake(D, d)
      [] d.op = 2 -> HandleWriteHandshake(D, d)
      [] d.op = 3 -> HandleWriteData(D, d)
      [] d.op = 4 -> HandleReadAck(D, d)
      [] OTHER -> D

-----------------------------------------------------------------------------
\* The datagrams the network delivers.

FileSizes == {k * defaultBlockSize + t : k \in 0..MaxBlocks, t \in {0, 5}}

OptLists ==
    { <<>>,
      <<Opt("blksize", Num(4))>>,
      <<Opt("blksize", Num(16))>>,
      <<Opt("blksize", Num(1024))>>,
      <<Opt("blksize", Text)>>,
      <<Opt("timeout", Num(5))>>,
      <<Opt("tsize", Num(0))>>,
      <<Opt("blksize", Num(1024)), Opt("tsize", Num(0))>>,
      <<Opt("windowsize", Num(4))>> }

Requests ==
    {Rq(op, f, "octet", o) : op \in {readFileReqOp, writeFileReqOp},
                             f \in FileNames, o \in OptLists}
    \cup {Rq(op, "f", "mail", <<>>) : op \in {readFileReqOp, writeFileReqOp}}

Acks == {Ack(b) : b \in 0..(MaxBlocks + 2)}
Datas == {Data(b, 0, n) : b \in 0..(MaxBlocks + 1), n \in {0, 100, defaultBlockSize}}
Errors == {Error(1, <<>>), Error(1, <<109, 115, 103>>)}

\* What may arrive on the well-known port as the first datagram of P.
FirstDatagrams == Requests \cup {Ack(0), BadOp, Short}

\* What may arrive on a session's ephemeral port.
SessionDatagrams ==
    Acks \cup Datas \cup Errors
    \cup {OAck(<<>>), BadOp, Short, Rq(readFileReqOp, "f", "octet", <<>>)}

\* What may arrive from P on the well-known port of the dispatcher.
DispatchDatagrams ==
    {r \in Requests : r.file # "nodir/x" \/ r.opts = <<>>}
    \cup {Ack(b) : b \in 0..(MaxBlocks + 1)}
    \cup {Data(b, 0, n) : b \in 0..MaxBlocks, n \in {100, defaultBlockSize}}
    \cup {Error(1, <<109, 115, 103>>), BadOp, Short}

\* d is the ACK of the DATA the server sent last, and that DATA has not
\* been acknowledged before.
InOrderAck(from, d) ==
    /\ from = P
    /\ d.op = ackReqOp
    /\ sent # <<>>
    /\ sent[Len(sent)].d.op = dataReqOp
    /\ sent[Len(sent)].d.block = d.block
    /\ d.block = acked + 1

\* The DATA awaiting its ACK after a step that handled datagram d and left
\* the transmitted datagrams as out.
Outstanding(d, out) ==
    IF Len(out) > Len(sent) /\ out[Len(out)].d.op = dataReqOp
    THEN out[Len(out)].d.block
    ELSE IF d.op = ackReqOp /\ d.block = outstanding THEN 0 ELSE outstanding

-----------------------------------------------------------------------------
\* The dispatcher Server and the client before they start.

\* NewServer: not closed, no goroutine started, nothing received.  read
\* and handled are the packets ReadFrom returned and the packets Dispatch
\* was called on, each in order.
\* closes counts the executions of close(s.done), and closing is where each
\* caller of Close stands in it.
MaxCallers == 3

Callers == 1..MaxCallers

NewServer == [closed |-> FALSE, run |-> "start", work |-> "off", reaper |-> "off",
              held |-> NoReq, from |-> P, recvd |-> 0, reaped |-> {},
              r |-> NoReq, p |-> NoReq, stale |-> FALSE,
              read |-> <<>>, handled |-> <<>>,
              closes |-> 0, closing |-> [c \in Callers |-> "off"]]

\* make(map[string]*clientPeer)
NoPeers == [a \in {} |-> NoReq]

\* No client operation has been called.
NoClient == [op |-> "none"]
NoCodec == [pc |-> "idle"]

\* Server.Run of the option-aware server after net.ListenPacket: in its
\* read loop, the socket in order, no read has come back empty-handed.
NewListener == [pc |-> "read", broken |-> FALSE, loops |-> 0, err |-> NoErr]

-----------------------------------------------------------------------------
\* The state machine of the session lineage.

\* Everything but the size of the file f.
InitRest ==
    /\ exists = {"f"}
    /\ req = NoReq
    /\ pc = "listen"
    /\ peer = newSessionPeer(P)
    /\ blockID = 1
    /\ lastN = 0
    /\ finalACK = FALSE
    /\ transferSize = 0
    /\ rcOff = 0
    /\ err = NoErr
    /\ dpeer = newClientPeer(P)
    /\ opened = {}
    /\ writes = <<>>
    /\ sent = <<>>
    /\ clean = TRUE
    /\ acked = 0
    /\ outstanding = 0
    /\ errored = FALSE
    /\ srv = NewServer
    /\ queue = <<>>
    /\ peerMap = NoPeers
    /\ client = NoClient
    /\ codec = NoCodec
    /\ listener = NewListener
    /\ net = {}

Init == fileSize \in FileSizes /\ InitRest

\* Server.Run (option-aware lineage) reads the first datagram of P and starts
\* a session goroutine on it, which runs up to its first wait.
SrvAccept(d) ==
    /\ pc = "listen"
    /\ req' = d
    /\ Install(run(Cur, P, d))
    /\ outstanding' = Outstanding(d, sent')
    /\ UNCHANGED <<fileSize, dpeer, clean, acked, errored, svars, client, codec, listener, net>>

\* The session reads datagram d, sent by from, on its ephemeral socket
\* (getResponse inside processResponse) and runs up to its next wait.
SessionRecv(from, d) ==
    /\ pc \in {"negotiate", "rrq", "wrq", "wrqFinal"}
    /\ clean' = (clean /\ InOrderAck(from, d))
    /\ acked' = IF clean /\ InOrderAck(from, d) THEN d.block ELSE acked
    /\ Install(afterResponse(Cur, d))
    /\ outstanding' = Outstanding(d, sent')
    /\ UNCHANGED <<fileSize, dpeer, req, errored, svars, client, codec, listener, net>>

\* The read deadline of the session's socket passes with nothing received.
SessionTimeout ==
    /\ pc \in {"negotiate", "rrq", "wrq", "wrqFinal"}
    /\ clean' = FALSE
    /\ Install(afterResponse(Cur, Timeout))
    /\ UNCHANGED <<fileSize, dpeer, req, acked, outstanding, errored, svars, client, codec, listener, net>>

Next ==
    \/ \E d \in FirstDatagrams : SrvAccept(d)
    \/ \E from \in {P, Q}, d \in SessionDatagrams : SessionRecv(from, d)
    \/ SessionTimeout

Spec == Init /\ [][Next]_vars

-----------------------------------------------------------------------------
\* The session lineage on requests whose timeout option lies at the edges
\* of, and beyond, the range minTimeout..maxTimeout.

TimeoutValues == {-65535, -1, 0, 1, 255, 256, 65537}

TimeoutRequests ==
    {Rq(readFileReqOp, "f", "octet", <<Opt(timeoutOptName, Num(v))>>) :
         v \in TimeoutValues}
    \cup {Rq(writeFileReqOp, "new", "octet", <<Opt(timeoutOptName, Num(v))>>) :
              v \in TimeoutValues}

TimeoutReplies == {Ack(0), Ack(1), Data(1, 0, 5), Data(1, 0, defaultBlockSize)}

TimeoutNext ==
    \/ \E d \in TimeoutRequests : SrvAccept(d)
    \/ \E d \in TimeoutReplies : SessionRecv(P, d)
    \/ SessionTimeout

TimeoutSpec == Init /\ [][TimeoutNext]_vars

-----------------------------------------------------------------------------
\* The session lineage on write requests that announce a size, up to and
\* beyond maxTransferSize.

TsizeValues == {0, 5, maxTransferSize, maxTransferSize + 1}

TsizeRequests ==
    {Rq(writeFileReqOp, "new", "octet", <<Opt(transferSizeOptName, Num(v))>>) :
         v \in TsizeValues}

TsizeReplies ==
    {Data(b, 0, n) : b \in 1..2, n \in {0, 5, defaultBlockSize}} \cup {Ack(0)}

TsizeNext ==
    \/ \E d \in TsizeRequests : SrvAccept(d)
    \/ \E d \in TsizeReplies : SessionRecv(P, d)
    \/ SessionTimeout

TsizeSpec == Init /\ [][TsizeNext]_vars

-----------------------------------------------------------------------------
\* The read loop of the option-aware Server.Run, next to the session it starts.

\* The iterations of the read loop that are followed: at most MaxLoops
\* reads that return no datagram.
MaxLoops == 2

\* The well-known socket fails for good (it is closed, or its interface
\* goes away): from now on every ReadFrom returns an error that is no timeout.
SocketFail ==
    /\ ~listener.broken
    /\ listener' = [listener EXCEPT !.broken = TRUE]
    /\ UNCHANGED <<fileSize, exists, req, pc, peer, blockID, lastN, finalACK,
                   transferSize, rcOff, err, dpeer, opened, writes, sent, clean,
                   acked, outstanding, errored, svars, client, codec, net>>

\* Run: conn.ReadFrom returns with a timeout.  err != nil: continue.
ListenTimeout ==
    /\ listener.pc = "read" /\ ~listener.broken
    /\ listener.loops < MaxLoops
    /\ listener' = [listener EXCEPT !.loops = @ + 1]
    /\ UNCHANGED <<fileSize, exists, req, pc, peer, blockID, lastN, finalACK,
                   transferSize, rcOff, err, dpeer, opened, writes, sent, clean,
                   acked, outstanding, errored, svars, client, codec, net>>

\* Run: conn.ReadFrom returns an error that is no timeout.  err != nil:
\* continue, as for a timeout.
ListenError ==
    /\ listener.pc = "read" /\ listener.broken
    /\ listener.loops < MaxLoops
    /\ listener' = [listener EXCEPT !.loops = @ + 1]
    /\ UNCHANGED <<fileSize, exists, req, pc, peer, blockID, lastN, finalACK,
                   transferSize, rcOff, err, dpeer, opened, writes, sent, clean,
                   acked, outstanding, errored, svars, client, codec, net>>

\* Run: conn.ReadFrom returns the first datagram of P.
ListenAccept(d) ==
    /\ listener.pc = "read" /\ ~listener.broken
    /\ SrvAccept(d)

ListenNext ==
    \/ SocketFail
    \/ ListenTimeout
    \/ ListenError
    \/ \E d \in FirstDatagrams : ListenAccept(d)
    \/ \E from \in {P, Q}, d \in SessionDatagrams : SessionRecv(from, d)
    \/ SessionTimeout

ListenSpec == Init /\ [][ListenNext]_vars

-----------------------------------------------------------------------------
\* The state machine of the dispatcher lineage.

\* Server.work takes datagram d of P from the queue and hands it to P's
\* clientPeer.
Dispatch(d) ==
    /\ Len(sent) < MaxSent
    /\ req' = IF req = NoReq THEN d ELSE req
    /\ clean' = (clean /\ (req = NoReq \/ InOrderAck(P, d)))
    /\ acked' = IF clean /\ req # NoReq /\ InOrderAck(P, d) THEN d.block ELSE acked
    /\ LET D == DispatchOn(DCur, d)
       IN /\ dpeer' = D.p
          /\ exists' = D.exists
          /\ opened' = D.opened
          /\ writes' = D.writes
          /\ sent' = D.sent
          /\ outstanding' = Outstanding(d, D.sent)
    /\ errored' = (errored \/ d.op = errorReqOp)
    /\ UNCHANGED <<fileSize, pc, peer, blockID, lastN, finalACK, transferSize,
                   rcOff, err, svars, client, codec, listener, net>>

\* removeClientPeer finds the session of P idle for longer than its
\* timeout while no call of Dispatch is under way: v.Close() and delete.
\* The next datagram of P gets a new clientPeer.
DispatchReap ==
    /\ Len(sent) < MaxSent
    /\ dpeer # newClientPeer(P)
    /\ dpeer' = newClientPeer(P)
    /\ clean' = FALSE
    /\ UNCHANGED <<fileSize, exists, req, pc, peer, blockID, lastN, finalACK,
                   transferSize, rcOff, err, opened, writes, sent, acked,
                   outstanding, errored, svars, client, codec, listener, net>>

\* Server.work has looked the session of P up and released the lock;
\* removeClientPeer closes and deletes the session before p.Dispatch runs
\* (mid = FALSE) or while it runs, after the handler's open (mid = TRUE).
\* The call goes on with the closed session, which is in the registry no
\* more.
DispatchRaced(d, mid) ==
    /\ Len(sent) < MaxSent
    /\ req' = IF req = NoReq THEN d ELSE req
    /\ clean' = FALSE
    /\ LET D == DispatchOn(DOf(IF mid THEN dpeer ELSE peerClose(dpeer),
                               sent, FALSE, mid), d)
       IN /\ dpeer' = newClientPeer(P)
          /\ exists' = D.exists
          /\ opened' = D.opened
          /\ writes' = D.writes
          /\ sent' = D.sent
          /\ outstanding' = Outstanding(d, D.sent)
    /\ errored' = (errored \/ d.op = errorReqOp)
    /\ UNCHANGED <<fileSize, pc, peer, blockID, lastN, finalACK, transferSize,
                   rcOff, err, acked, svars, client, codec, listener, net>>

\* The datagrams whose call of Dispatch the reaper is followed into.
RacedDatagrams ==
    {Rq(readFileReqOp, "f", "octet", <<>>), Rq(writeFileReqOp, "new", "octet", <<>>),
     Ack(1), Data(1, 0, 100)}

DispatchNext ==
    \/ \E d \in DispatchDatagrams : Dispatch(d)
    \/ DispatchReap
    \/ \E d \in RacedDatagrams, mid \in BOOLEAN : DispatchRaced(d, mid)

DispatchSpec == Init /\ [][DispatchNext]_vars

-----------------------------------------------------------------------------
\* The blksize option on both servers: a behaviour is one session of the
\* option-aware server or one of the dispatcher.

BlksizeValues == {0, 7, 8, 16, 512, 513, 65464, 65465}

BlksizeRequests ==
    {Rq(readFileReqOp, "f", "octet", <<Opt(blockSizeOptName, Num(v))>>) :
         v \in BlksizeValues}
    \cup {Rq(writeFileReqOp, "new", "octet", <<Opt(blockSizeOptName, Num(v))>>) :
              v \in BlksizeValues}

BlksizeReplies == {Ack(0), Ack(1), Data(1, 0, 5), Data(1, 0, defaultBlockSize)}

\* The request reaches the option-aware server.
BlksizeAccept(d) ==
    /\ req = NoReq
    /\ SrvAccept(d)

\* The datagram reaches the dispatcher.
BlksizeDispatch(d) ==
    /\ pc = "listen"
    /\ Dispatch(d)

BlksizeNext ==
    \/ \E d \in BlksizeRequests : BlksizeAccept(d)
    \/ \E d \in BlksizeReplies : SessionRecv(P, d)
    \/ SessionTimeout
    \/ \E d \in BlksizeRequests \cup BlksizeReplies : BlksizeDispatch(d)

BlksizeSpec == Init /\ [][BlksizeNext]_vars

-----------------------------------------------------------------------------
\* The dispatcher session on a file of more than 65535 blocks.

\* A file of 65535 blocks of 512 bytes and 5 bytes more.
BigFileSize == 65535 * 512 + 5

WrapDatagrams ==
    {Rq(readFileReqOp, "f", "octet", <<>>),
     Rq(readFileReqOp, "f", "octet", <<Opt("blksize", Num(16))>>)}
    \cup {Ack(b) : b \in {0, 1, 65534, 65535}}

WrapInit == fileSize = BigFileSize /\ InitRest

WrapNext == \E d \in WrapDatagrams : Dispatch(d)

WrapSpec == WrapInit /\ [][WrapNext]_vars

-----------------------------------------------------------------------------
\* The dispatcher Server (Server.Run, Server.work, Server.removeClientPeer
\* and Server.Close).  Run, work and the reaper are three goroutines; each
\* action is one step of one of them, of the caller of Close, of the
\* network or of the clock.  A session's keepaliveTime is kept as the time
\* that has passed since it was set (idle, in seconds).

\* The datagrams the network delivers to the Server: at most MaxArrivals.
MaxArrivals == 2

\* The capacity of packetChan (1024 in NewServer).
packetChanCap == 2

\* The clock advances by steps of TickSeconds seconds.
TickSeconds == 5

Addrs == {P, Q}

ServerDatagrams ==
    { Rq(readFileReqOp, "f", "octet", <<>>),
      Rq(readFileReqOp, "f", "octet", <<Opt("timeout", Num(5))>>),
      Ack(1), Error(1, <<109, 115, 103>>) }

\* What arrives, and from where: anything of the above from P, a stray ACK
\* from Q.
ServerArrivals ==
    {<<P, d>> : d \in ServerDatagrams} \cup {<<Q, Ack(1)>>}

\* A changed chanRecv: the receive takes the value sent last.
chanRecvNewest(q) == [r |-> q[Len(q)], rest |-> SubSeq(q, 1, Len(q) - 1)]

\* A receive from the buffered channel packetChan: the value sent first,
\* and what stays in the buffer.
chanRecv(q) == [r |-> Head(q), rest |-> Tail(q)]

\* A changed doneClosed: the done channel never becomes ready.
doneNever(sv) == FALSE

\* The case <-s.done of a select is ready once Close has closed done.
doneClosed(sv) == sv.closed

\* removeClientPeer's test: now.Sub(v.keepaliveTime) > v.timeout seconds.
expired(idle, timeout) == idle > timeout

\* A changed reapable: the reaper measures every session against the
\* timeout of a new session.
reapableByDefault(e) == expired(e.idle, newClientPeer(P).timeout)

\* removeClientPeer's test on session e, against e's own timeout.
reapable(e) == expired(e.idle, e.peer.timeout)

\* A new entry of peerMap: newClientPeer, with the opcode of the datagram
\* it was made for (by), whether it has received an ERROR and whether the
\* ACK of its final DATA has arrived.
newEntry(a, d) ==
    [peer |-> newClientPeer(a), idle |-> 0, by |-> d.op, gotError |-> FALSE,
     final |-> FALSE]

\* The ACK d of address a acknowledges a DATA shorter than the block size.
FinalAck(a, d, blockSize) ==
    /\ d.op = ackReqOp
    /\ \E i \in 1..Len(sent) :
           /\ sent[i].to = a /\ sent[i].d.op = dataReqOp
           /\ sent[i].d.block = d.block /\ sent[i].d.len < blockSize

\* Server.Run starts the reaper and the worker and enters its read loop.
RunStart ==
    /\ srv.run = "start"
    /\ srv' = [srv EXCEPT !.run = "read", !.work = "select", !.reaper = "select"]
    /\ UNCHANGED <<fileSize, exists, req, pc, peer, blockID, lastN, finalACK,
                   transferSize, rcOff, err, dpeer, opened, writes, sent, clean,
                   acked, outstanding, errored, queue, peerMap, client, codec, listener, net>>

\* Run: conn.ReadFrom returns datagram d of address a.
RunRead(a, d) ==
    /\ srv.run = "read" /\ ~srv.closed
    /\ srv.recvd < MaxArrivals
    /\ srv' = [srv EXCEPT !.run = "select", !.held = d, !.from = a,
                          !.recvd = @ + 1,
                          !.read = Append(@, [data |-> d, remoteAddr |-> a])]
    /\ UNCHANGED <<fileSize, exists, req, pc, peer, blockID, lastN, finalACK,
                   transferSize, rcOff, err, dpeer, opened, writes, sent, clean,
                   acked, outstanding, errored, queue, peerMap, client, codec, listener, net>>

\* Run: conn.ReadFrom fails on the closed socket, with an error that is no
\* timeout: Run returns it.
RunReadClosed ==
    /\ srv.run = "read" /\ srv.closed
    /\ srv' = [srv EXCEPT !.run = "returned"]
    /\ UNCHANGED <<fileSize, exists, req, pc, peer, blockID, lastN, finalACK,
                   transferSize, rcOff, err, dpeer, opened, writes, sent, clean,
                   acked, outstanding, errored, queue, peerMap, client, codec, listener, net>>

\* Run's select, case <-s.done.
RunSelectDone ==
    /\ srv.run = "select" /\ doneClosed(srv)
    /\ srv' = [srv EXCEPT !.run = "returned"]
    /\ UNCHANGED <<fileSize, exists, req, pc, peer, blockID, lastN, finalACK,
                   transferSize, rcOff, err, dpeer, opened, writes, sent, clean,
                   acked, outstanding, errored, queue, peerMap, client, codec, listener, net>>

\* Run's select, case s.packetChan <- clientPacket{...}.
RunSelectSend ==
    /\ srv.run = "select" /\ Len(queue) < packetChanCap
    /\ queue' = Append(queue, [data |-> srv.held, remoteAddr |-> srv.from])
    /\ srv' = [srv EXCEPT !.run = "read", !.held = NoReq, !.from = P]
    /\ UNCHANGED <<fileSize, exists, req, pc, peer, blockID, lastN, finalACK,
                   transferSize, rcOff, err, dpeer, opened, writes, sent, clean,
                   acked, outstanding, errored, peerMap, client, codec, listener, net>>

\* work's select, case r := <-s.packetChan: under the lock, the session of
\* r.remoteAddr is looked up, and made and registered if there is none.
\* work then holds r and the session p outside the lock.
WorkTake ==
    /\ srv.work = "select" /\ queue # <<>>
    /\ LET r == chanRecv(queue).r
           a == r.remoteAddr
       IN /\ peerMap' = IF a \in DOMAIN peerMap THEN peerMap
                        ELSE [b \in DOMAIN peerMap \cup {a} |->
                                 IF b = a THEN newEntry(a, r.data) ELSE peerMap[b]]
          /\ srv' = [srv EXCEPT !.work = "dispatch", !.r = r]
    /\ queue' = chanRecv(queue).rest
    /\ UNCHANGED <<fileSize, exists, req, pc, peer, blockID, lastN, finalACK,
                   transferSize, rcOff, err, dpeer, opened, writes, sent, clean,
                   acked, outstanding, errored, client, codec, listener, net>>

\* work: p.Dispatch(s.conn, r.data), without the lock.  p is the session
\* the lookup returned: the registered one, or, when the reaper has closed
\* and deleted it since, the session the reaper let go of (srv.p).
WorkDispatch ==
    /\ srv.work = "dispatch"
    /\ LET r == srv.r
           a == r.remoteAddr
           live == a \in DOMAIN peerMap
           e == IF live THEN peerMap[a] ELSE srv.p
           D == DispatchOn(DOf(e.peer, sent, srv.closed, FALSE), r.data)
           e1 == [e EXCEPT !.peer = D.p, !.idle = 0,
                           !.gotError = @ \/ r.data.op = errorReqOp,
                           !.final = @ \/ FinalAck(a, r.data, e.peer.blockSize)]
       IN /\ peerMap' = IF live THEN [peerMap EXCEPT ![a] = e1] ELSE peerMap
          /\ exists' = D.exists
          /\ opened' = D.opened
          /\ writes' = D.writes
          /\ sent' = D.sent
          /\ srv' = [srv EXCEPT !.work = "select", !.r = NoReq, !.p = NoReq,
                                !.stale = @ \/ ~live,
                                !.handled = Append(@, r)]
    /\ UNCHANGED <<fileSize, req, pc, peer, blockID, lastN, finalACK,
                   transferSize, rcOff, err, dpeer, clean, acked, outstanding,
                   errored, queue, client, codec, listener, net>>

\* p.Dispatch(s.conn, r.data) with the reaper at work in the middle of it:
\* removeClientPeer found the session idle for too long before Dispatch set
\* its keepaliveTime, and closes and deletes it after the handler's open.
\* The handler goes on with the closed streams.
WorkDispatchReaped ==
    /\ srv.work = "dispatch" /\ srv.reaper = "select"
    /\ srv.r.remoteAddr \in DOMAIN peerMap
    /\ reapable(peerMap[srv.r.remoteAddr])
    /\ LET r == srv.r
           gone == {a \in DOMAIN peerMap : reapable(peerMap[a])}
           D == DispatchOn(DOf(peerMap[r.remoteAddr].peer, sent, srv.closed, TRUE),
                           r.data)
       IN /\ peerMap' = [a \in DOMAIN peerMap \ gone |-> peerMap[a]]
          /\ exists' = D.exists
          /\ opened' = D.opened
          /\ writes' = D.writes
          /\ sent' = D.sent
          /\ srv' = [srv EXCEPT !.work = "select", !.r = NoReq, !.p = NoReq,
                                !.reaped = @ \cup gone,
                                !.handled = Append(@, r)]
    /\ UNCHANGED <<fileSize, req, pc, peer, blockID, lastN, finalACK,
                   transferSize, rcOff, err, dpeer, clean, acked, outstanding,
                   errored, queue, client, codec, listener, net>>

\* work's select, case <-s.done.
WorkDone ==
    /\ srv.work = "select" /\ doneClosed(srv)
    /\ srv' = [srv EXCEPT !.work = "returned"]
    /\ UNCHANGED <<fileSize, exists, req, pc, peer, blockID, lastN, finalACK,
                   transferSize, rcOff, err, dpeer, opened, writes, sent, clean,
                   acked, outstanding, errored, queue, peerMap, client, codec, listener, net>>

\* removeClientPeer's select, case <-time.After(100ms): every session found
\* idle for longer than its timeout is closed and deleted.  A session that
\* work holds at that moment lives on as work's p.
ReaperTick ==
    /\ srv.reaper = "select"
    /\ LET gone == {a \in DOMAIN peerMap : reapable(peerMap[a])}
           held == srv.work = "dispatch" /\ srv.r.remoteAddr \in gone
       IN /\ peerMap' = [a \in DOMAIN peerMap \ gone |-> peerMap[a]]
          /\ srv' = [srv EXCEPT
                       !.reaped = @ \cup gone,
                       !.p = IF held
                             THEN [peerMap[srv.r.remoteAddr] EXCEPT
                                      !.peer = peerClose(@)]
                             ELSE @]
    /\ UNCHANGED <<fileSize, exists, req, pc, peer, blockID, lastN, finalACK,
                   transferSize, rcOff, err, dpeer, opened, writes, sent, clean,
                   acked, outstanding, errored, queue, client, codec, listener, net>>

\* removeClientPeer's select, case <-s.done.
ReaperDone ==
    /\ srv.reaper = "select" /\ doneClosed(srv)
    /\ srv' = [srv EXCEPT !.reaper = "returned"]
    /\ UNCHANGED <<fileSize, exists, req, pc, peer, blockID, lastN, finalACK,
                   transferSize, rcOff, err, dpeer, opened, writes, sent, clean,
                   acked, outstanding, errored, queue, peerMap, client, codec, listener, net>>

\* Server.Close
Close ==
    /\ ~srv.closed
    /\ srv' = [srv EXCEPT !.closed = TRUE, !.closes = @ + 1]
    /\ UNCHANGED <<fileSize, exists, req, pc, peer, blockID, lastN, finalACK,
                   transferSize, rcOff, err, dpeer, opened, writes, sent, clean,
                   acked, outstanding, errored, queue, peerMap, client, codec, listener, net>>

\* Server.Close called by several goroutines, statement by statement: it
\* takes no lock, so the statements of the callers interleave.  A close of
\* a closed channel panics, and the program stops.
closePanicked == \E c \in Callers : srv.closing[c] = "panic"

\* A goroutine calls Close.
CloseCall(c) ==
    /\ ~closePanicked /\ srv.closing[c] = "off"
    /\ srv' = [srv EXCEPT !.closing[c] = "test"]
    /\ UNCHANGED <<fileSize, exists, req, pc, peer, blockID, lastN, finalACK,
                   transferSize, rcOff, err, dpeer, opened, writes, sent, clean,
                   acked, outstanding, errored, queue, peerMap, client, codec, listener, net>>

\* if s.closed { return nil }
CloseTest(c) ==
    /\ ~closePanicked /\ srv.closing[c] = "test"
    /\ srv' = [srv EXCEPT !.closing[c] = IF srv.closed THEN "returned" ELSE "set"]
    /\ UNCHANGED <<fileSize, exists, req, pc, peer, blockID, lastN, finalACK,
                   transferSize, rcOff, err, dpeer, opened, writes, sent, clean,
                   acked, outstanding, errored, queue, peerMap, client, codec, listener, net>>

\* s.closed = true
CloseSet(c) ==
    /\ ~closePanicked /\ srv.closing[c] = "set"
    /\ srv' = [srv EXCEPT !.closed = TRUE, !.closing[c] = "close"]
    /\ UNCHANGED <<fileSize, exists, req, pc, peer, blockID, lastN, finalACK,
                   transferSize, rcOff, err, dpeer, opened, writes, sent, clean,
                   acked, outstanding, errored, queue, peerMap, client, codec, listener, net>>

\* close(s.done)
CloseDone(c) ==
    /\ ~closePanicked /\ srv.closing[c] = "close"
    /\ srv' = [srv EXCEPT !.closes = @ + 1,
                          !.closing[c] = IF srv.closes > 0 THEN "panic" ELSE "conn"]
    /\ UNCHANGED <<fileSize, exists, req, pc, peer, blockID, lastN, finalACK,
                   transferSize, rcOff, err, dpeer, opened, writes, sent, clean,
                   acked, outstanding, errored, queue, peerMap, client, codec, listener, net>>

\* return s.conn.Close()
CloseConn(c) ==
    /\ ~closePanicked /\ srv.closing[c] = "conn"
    /\ srv' = [srv EXCEPT !.closing[c] = "returned"]
    /\ UNCHANGED <<fileSize, exists, req, pc, peer, blockID, lastN, finalACK,
                   transferSize, rcOff, err, dpeer, opened, writes, sent, clean,
                   acked, outstanding, errored, queue, peerMap, client, codec, listener, net>>

CloseNext ==
    \E c \in Callers :
        \/ CloseCall(c)
        \/ CloseTest(c)
        \/ CloseSet(c)
        \/ CloseDone(c)
        \/ CloseConn(c)

CloseSpec == Init /\ [][CloseNext]_vars

\* TickSeconds seconds pass: every session that is not yet found idle has
\* been idle for that much longer.
Tick ==
    /\ \E a \in DOMAIN peerMap : ~expired(peerMap[a].idle, peerMap[a].peer.timeout)
    /\ peerMap' = [a \in DOMAIN peerMap |->
                      IF expired(peerMap[a].idle, peerMap[a].peer.timeout)
                      THEN peerMap[a]
                      ELSE [peerMap[a] EXCEPT !.idle = @ + TickSeconds]]
    /\ UNCHANGED <<fileSize, exists, req, pc, peer, blockID, lastN, finalACK,
                   transferSize, rcOff, err, dpeer, opened, writes, sent, clean,
                   acked, outstanding, errored, srv, queue, client, codec, listener, net>>

ServerInit == Init /\ fileSize = 5

RunStep == RunStart \/ RunReadClosed \/ RunSelectDone \/ RunSelectSend
WorkStep == WorkTake \/ WorkDispatch \/ WorkDispatchReaped \/ WorkDone
ReaperStep == ReaperTick \/ ReaperDone

ServerNext ==
    \/ RunStart
    \/ \E ad \in ServerArrivals : RunRead(ad[1], ad[2])
    \/ RunReadClosed
    \/ RunSelectDone
    \/ RunSelectSend
    \/ WorkTake
    \/ WorkDispatch
    \/ WorkDispatchReaped
    \/ WorkDone
    \/ ReaperTick
    \/ ReaperDone
    \/ Close
    \/ Tick

\* Each goroutine that can take a step eventually takes one.
ServerSpec ==
    /\ ServerInit /\ [][ServerNext]_vars
    /\ WF_vars(RunStep) /\ WF_vars(WorkStep) /\ WF_vars(ReaperStep)

-----------------------------------------------------------------------------
\* The clients: ReadFile and WriteFile (over processResponse, which stores
\* the source address of every datagram it reads through raddr) and
\* Client.Get and Client.Put.  Under ClientSpec, fileSize is the size of
\* the source a write transfer reads, sent holds the datagrams the client
\* transmitted and writes the writes it made to its writer.

\* The retries Client allows on a read timeout (NewClient's retryTime).
retryTime == 1

S == "S"   \* the address the client was given: the server's well-known port
T == "T"   \* the address the server's session answers from

ClientOps == {"ReadFile", "WriteFile", "Get", "Put"}

\* The client record: the operation, where it waits (pc), the address it
\* sends to next (raddrC), the source of the first datagram it received
\* (first), its block-id, the count of its last read, its timeout count and
\* the error it returned.
newClient(op) ==
    [op |-> op, pc |-> "wait", raddrC |-> S, first |-> "none", blockID |-> 1,
     n |-> 0, off |-> 0, finalACK |-> FALSE, retry |-> 0, err |-> NoErr]

\* What a step of the client works on: its record, what it has sent, what
\* it has written, and whether the writer's WriteAt fails in this step.
CCur == [c |-> client, sent |-> sent, writes |-> writes, wfail |-> FALSE]

\* The operation returns e.
Return(C, e) == [C EXCEPT !.c.pc = "done", !.c.err = e]

\* conn.WriteTo of the encoding of packet p to address addr.
CSend(C, addr, p) == [C EXCEPT !.sent = @ \o sendPacket(addr, p)]

\* The first statements of each operation, up to its first wait: the
\* request goes to the address the client was given.
clientStart(C, op) ==
    LET rq == [type |-> "rwPacket", ptr |-> TRUE,
               opcode |-> IF op \in {"ReadFile", "Get"} THEN readFileReqOp
                          ELSE writeFileReqOp,
               fileName |-> "f", transferMode |-> binaryMode]
        C1 == CSend([C EXCEPT !.c = newClient(op)], S, rq)
    IN IF op = "WriteFile" THEN [C1 EXCEPT !.c.pc = "wait0"] ELSE C1

\* WriteFile: reader.Read of the next block and the DATA that carries it.
writeFileSendData(C) ==
    LET r == StreamRead(fileSize, C.c.off, defaultBlockSize)
        dq == [type |-> "dataPacket", ptr |-> TRUE, blockID |-> C.c.blockID,
               data |-> [off |-> C.c.off, len |-> r.n]]
    IN CSend([C EXCEPT !.c.n = r.n, !.c.off = @ + r.n, !.c.pc = "wait"],
             C.c.raddrC, dq)

\* ReadFile after a datagram d from address from.
ReadFile(C0, from, d) ==
    LET r == IF d = Timeout THEN [err |-> errIOTimeout, p |-> NilPacket]
             ELSE getRequestPacket(d)
    IN IF r.err # NoErr
       THEN IF C0.c.pc = "final" THEN Return(C0, NoErr) ELSE Return(C0, r.err)
       ELSE LET C == [C0 EXCEPT !.c.raddrC = from]
                ackp == [type |-> "ackPacket", ptr |-> TRUE, blockID |-> C.c.blockID]
            IN IF r.p.type = "errorPacket"
               THEN IF C.c.pc = "final" THEN Return(C, NoErr)
                    ELSE Return(C, errRemote)
               ELSE IF C.c.pc = "final"
               THEN IF r.p.type = "dataPacket" /\ r.p.blockID = C.c.blockID
                    THEN Return(CSend(C, C.c.raddrC, ackp), NoErr)
                    ELSE Return(C, NoErr)
               ELSE IF r.p.type = "dataPacket" /\ r.p.blockID = C.c.blockID
               THEN LET fin == r.p.data.len # defaultBlockSize
                        C1 == [C EXCEPT !.writes = Append(@, [block |-> r.p.blockID,
                                                              off |-> C.c.off,
                                                              len |-> r.p.data.len]),
                                        !.c.off = @ + r.p.data.len,
                                        !.c.finalACK = fin]
                        C2 == CSend(C1, C1.c.raddrC, ackp)
                    IN IF fin THEN [C2 EXCEPT !.c.pc = "final"]
                       ELSE [C2 EXCEPT !.c.blockID = uint16(@ + 1)]
               ELSE C

\* WriteFile after a datagram d from address from.
WriteFile(C0, from, d) ==
    LET r == IF d = Timeout THEN [err |-> errIOTimeout, p |-> NilPacket]
             ELSE getRequestPacket(d)
    IN IF r.err # NoErr THEN Return(C0, r.err)
       ELSE LET C == [C0 EXCEPT !.c.raddrC = from]
            IN IF r.p.type = "errorPacket" THEN Return(C, errRemote)
               ELSE IF C.c.pc = "wait0"
               THEN IF r.p.type = "ackPacket" /\ r.p.blockID = 0
                    THEN writeFileSendData([C EXCEPT !.c.blockID = 1])
                    ELSE C
               ELSE IF r.p.type = "ackPacket" /\ r.p.blockID = C.c.blockID
               THEN IF C.c.n < defaultBlockSize THEN Return(C, NoErr)
                    ELSE writeFileSendData([C EXCEPT !.c.blockID = uint16(@ + 1)])
               ELSE C

\* handleError's error for an ERROR packet.
errHandled == "code:, msg:"

\* A changed clientTimeout: a timeout is always waited out.
clientTimeoutForever(C) == [C EXCEPT !.c.retry = Min(@ + 1, retryTime)]

\* The read timeout of Client.Get and Client.Put: up to retryTime timeouts
\* in a row are waited out, the next one is returned.
clientTimeout(C) ==
    IF C.c.retry < retryTime THEN [C EXCEPT !.c.retry = @ + 1]
    ELSE Return(C, errIOTimeout)

\* Client.Get after a datagram d from address from: the DATA is written at
\* (blockID - 1) * 512 (src is where in the file its bytes come from) and,
\* when the write succeeded, acknowledged to the address it came from; a
\* DATA of fewer than 512 bytes ends the loop, written or not.
Get(C0, from, d) ==
    IF d = Timeout THEN clientTimeout(C0)
    ELSE LET C == [C0 EXCEPT !.c.retry = 0]
         IN IF d.op = dataReqOp
            THEN LET C1 == [C EXCEPT !.c.blockID = d.block,
                                     !.writes =
                                Append(@, [block |-> d.block,
                                           off |-> uint16(d.block + 65535) * 512,
                                           len |-> d.len, src |-> d.off])]
                     C2 == IF C.wfail THEN [C EXCEPT !.c.blockID = d.block]
                           ELSE [C1 EXCEPT !.sent = Append(@, Sent(Ack(d.block), from))]
                 IN IF d.len < 512 THEN Return(C2, NoErr) ELSE C2
            ELSE IF d.op = errorReqOp THEN Return(C, errHandled)
            ELSE C

\* io.ReaderAt.ReadAt of n bytes at offset off of a source of size bytes:
\* fewer than n bytes come with io.EOF.
ReadAt(size, off, n) ==
    LET left == IF off < size THEN size - off ELSE 0
    IN [n |-> Min(n, left), err |-> IF left < n THEN errEOF ELSE NoErr]

\* Client.Put after a datagram d from address from: ACK(b) is answered
\* with DATA(b + 1), read at b * 512, sent to the address the ACK came from;
\* a read that meets the end of the source ends the loop.
Put(C0, from, d) ==
    IF d = Timeout THEN clientTimeout(C0)
    ELSE LET C == [C0 EXCEPT !.c.retry = 0]
         IN IF d.op = ackReqOp
            THEN LET r == ReadAt(fileSize, d.block * 512, 512)
                 IN IF r.err = errEOF THEN Return(C, NoErr)
                    ELSE [C EXCEPT !.sent =
                              Append(@, Sent(Data(uint16(d.block + 1),
                                                  d.block * 512, r.n), from))]
            ELSE IF d.op = errorReqOp THEN Return(C, errHandled)
            ELSE C

\* The operation under way, after datagram d from address from.
clientStep(C, from, d) ==
    LET C1 == IF d # Timeout /\ C.c.first = "none"
              THEN [C EXCEPT !.c.first = from] ELSE C
    IN CASE C.c.op = "ReadFile" -> ReadFile(C1, from, d)
         [] C.c.op = "WriteFile" -> WriteFile(C1, from, d)
         [] C.c.op = "Get" -> Get(C1, from, d)
         [] C.c.op = "Put" -> Put(C1, from, d)

\* What may reach the client's socket.
ClientDatagrams ==
    {Ack(b) : b \in 0..(MaxBlocks + 1)}
    \cup {Data(b, (b - 1) * defaultBlockSize, n) :
              b \in 1..(MaxBlocks + 1), n \in {0, 5, defaultBlockSize}}
    \cup {Error(1, <<109, 115, 103>>), BadOp, Short}

\* d, from the server's session, is the ACK of what the client sent last:
\* of block 0 after the request, of the block of the last DATA after that.
ClientInOrderAck(from, d) ==
    /\ from = T
    /\ d.op = ackReqOp
    /\ sent # <<>>
    /\ d.block = IF sent[Len(sent)].d.op = dataReqOp
                 THEN sent[Len(sent)].d.block ELSE 0

\* The caller starts one of the four operations.
ClientStart(op) ==
    /\ client = NoClient
    /\ LET C == clientStart(CCur, op)
       IN /\ client' = C.c
          /\ sent' = C.sent
          /\ writes' = C.writes
    /\ UNCHANGED <<fileSize, exists, req, pc, peer, blockID, lastN, finalACK,
                   transferSize, rcOff, err, dpeer, opened, clean, acked,
                   outstanding, errored, svars, codec, listener, net>>

\* The client reads datagram d, sent by from, and runs up to its next wait.
ClientRecv(from, d) ==
    /\ client # NoClient /\ client.pc # "done"
    /\ Len(sent) <= MaxSent
    /\ LET C == clientStep(CCur, from, d)
       IN /\ client' = C.c
          /\ sent' = C.sent
          /\ writes' = C.writes
    /\ clean' = (clean /\ ClientInOrderAck(from, d))
    /\ UNCHANGED <<fileSize, exists, req, pc, peer, blockID, lastN, finalACK,
                   transferSize, rcOff, err, dpeer, opened, acked,
                   outstanding, errored, svars, codec, listener, net>>

\* Get reads the DATA d, sent by from, and the writer's WriteAt returns an
\* error.
ClientRecvWriteFails(from, d) ==
    /\ client # NoClient /\ client.pc # "done"
    /\ client.op = "Get" /\ d.op = dataReqOp
    /\ Len(sent) <= MaxSent
    /\ LET C == clientStep([CCur EXCEPT !.wfail = TRUE], from, d)
       IN /\ client' = C.c
          /\ sent' = C.sent
          /\ writes' = C.writes
    /\ clean' = FALSE
    /\ UNCHANGED <<fileSize, exists, req, pc, peer, blockID, lastN, finalACK,
                   transferSize, rcOff, err, dpeer, opened, acked,
                   outstanding, errored, svars, codec, listener, net>>

\* The read deadline of the client's socket passes with nothing received.
ClientTimeout ==
    /\ client # NoClient /\ client.pc # "done"
    /\ LET C == clientStep(CCur, S, Timeout)
       IN /\ client' = C.c
          /\ sent' = C.sent
          /\ writes' = C.writes
    /\ clean' = FALSE
    /\ UNCHANGED <<fileSize, exists, req, pc, peer, blockID, lastN, finalACK,
                   transferSize, rcOff, err, dpeer, opened, acked,
                   outstanding, errored, svars, codec, listener, net>>

ClientNext ==
    \/ \E op \in ClientOps : ClientStart(op)
    \/ \E from \in {T, Q}, d \in ClientDatagrams : ClientRecv(from, d)
    \/ ClientTimeout

\* Under ClientSpec the caller's reader and writer work; a writer that
\* fails is followed under GetSpec.
ClientSpec == Init /\ [][ClientNext]_vars

\* Client.Get against a session of the dispatcher, over a network that
\* loses, delays and duplicates: whatever the client has sent may reach the
\* server at any time and any number of times, and so may what the server
\* has sent reach the client.

\* The caller starts Get.
GetStart == ClientStart("Get")

\* The server's session receives a copy of the i-th datagram the client
\* sent; its answers are on their way to the client.
GetServe(i) ==
    /\ client # NoClient
    /\ i \in 1..Len(sent)
    /\ LET D == DispatchOn([DOf(dpeer, <<>>, FALSE, FALSE) EXCEPT !.writes = <<>>],
                            sent[i].d)
       IN /\ dpeer' = D.p
          /\ net' = net \cup {D.sent[j].d : j \in 1..Len(D.sent)}
    /\ UNCHANGED <<fileSize, exists, req, pc, peer, blockID, lastN, finalACK,
                   transferSize, rcOff, err, opened, writes, sent, clean,
                   acked, outstanding, errored, svars, client, codec, listener>>

\* The client reads a copy of a datagram the server sent.
GetRecv(d) ==
    /\ d \in net
    /\ ClientRecv(S, d)

\* The client reads a copy of a DATA the server sent, and cannot write it.
GetRecvWriteFails(d) ==
    /\ d \in net
    /\ ClientRecvWriteFails(S, d)

GetNext ==
    \/ GetStart
    \/ \E i \in 1..(MaxSent + 1) : GetServe(i)
    \/ \E d \in net : GetRecv(d)
    \/ \E d \in net : GetRecvWriteFails(d)
    \/ ClientTimeout

GetSpec == Init /\ [][GetNext]_vars

\* Every wait of the client sets a read deadline (SetReadDeadline before
\* each ReadFrom), so a wait in which nothing arrives ends in a timeout.
ClientFairSpec == ClientSpec /\ WF_vars(ClientTimeout)

-----------------------------------------------------------------------------
\* The codec on its own: a packet is encoded by packetReq and the bytes are
\* decoded by getRequestPacket.

\* An RRQ or WRQ packet without options.
rwPacketOf(opcode, transferMode) ==
    [type |-> "rwPacket", ptr |-> TRUE, opcode |-> opcode,
     fileName |-> "f", transferMode |-> transferMode,
     hasOption |-> FALSE,
     hasBlockSize |-> FALSE, blockSize |-> 0,
     hasTransferSize |-> FALSE, transferSize |-> 0,
     hasTimeout |-> FALSE, timeout |-> 0]

\* The packets whose option fields rwPacket.Read can populate.
rwPackets ==
    UNION {{ rwPacketOf(op, m),
             [rwPacketOf(op, m) EXCEPT !.hasBlockSize = TRUE, !.blockSize = 1024],
             [rwPacketOf(op, m) EXCEPT !.hasTimeout = TRUE, !.timeout = 5],
             [rwPacketOf(op, m) EXCEPT !.hasTransferSize = TRUE, !.transferSize = 0] } :
           op \in {readFileReqOp, writeFileReqOp}, m \in {binaryMode, netASCIIMode}}

CodecPackets ==
    rwPackets
    \cup {[type |-> "dataPacket", ptr |-> TRUE, blockID |-> b,
           data |-> [off |-> 0, len |-> n]] :
              b \in {1, 65535}, n \in {0, 5, defaultBlockSize}}
    \cup {[type |-> "ackPacket", ptr |-> TRUE, blockID |-> b] : b \in {0, 1, 65535}}
    \cup {[type |-> "oackPacket", ptr |-> TRUE, options |-> o] :
              o \in {<<>>, <<Opt(blockSizeOptName, Num(1024))>>,
                     <<Opt(timeoutOptName, Num(5)), Opt(transferSizeOptName, Num(5))>>}}
    \cup {[type |-> "errorPacket", ptr |-> TRUE, code |-> c, msg |-> m] :
              c \in {0, 4, 65536}, m \in {<<>>, <<109, 115, 103>>}}

\* packetReq(p)
Encode(p) ==
    /\ codec.pc = "idle"
    /\ codec' = [pc |-> "encoded", packet |-> p, bytes |-> packetReq(p)]
    /\ UNCHANGED <<fileSize, exists, req, pc, peer, blockID, lastN, finalACK,
                   transferSize, rcOff, err, dpeer, opened, writes, sent, clean,
                   acked, outstanding, errored, svars, client, listener, net>>

\* getRequestPacket of the bytes packetReq returned
Decode ==
    /\ codec.pc = "encoded"
    /\ codec.bytes # <<>>
    /\ codec' = [codec EXCEPT !.pc = "decoded"] @@
                [resp |-> getRequestPacket(codec.bytes[1])]
    /\ UNCHANGED <<fileSize, exists, req, pc, peer, blockID, lastN, finalACK,
                   transferSize, rcOff, err, dpeer, opened, writes, sent, clean,
                   acked, outstanding, errored, svars, client, listener, net>>

\* Datagrams in the wire format of the protocol: an ERROR has a 2-byte code.
WireDatagrams ==
    {Error(1, <<109, 115, 103>>), Error(4, <<>>), Ack(1), Data(1, 0, 5)}

\* getRequestPacket of a datagram that came from the network
Receive(d) ==
    /\ codec.pc = "idle"
    /\ codec' = [pc |-> "received", packet |-> NilPacket, bytes |-> <<d>>,
                 resp |-> getRequestPacket(d)]
    /\ UNCHANGED <<fileSize, exists, req, pc, peer, blockID, lastN, finalACK,
                   transferSize, rcOff, err, dpeer, opened, writes, sent, clean,
                   acked, outstanding, errored, svars, client, listener, net>>

CodecNext ==
    \/ \E p \in CodecPackets : Encode(p)
    \/ Decode
    \/ \E d \in WireDatagrams : Receive(d)

CodecSpec == Init /\ [][CodecNext]_vars

-----------------------------------------------------------------------------
\* Properties.

Ceil(n, b) == (n + b - 1) \div b

\* The request was an RRQ without options for the file that exists.
PlainRRQ ==
    /\ req.op = readFileReqOp
    /\ req.file = "f"
    /\ req.mode \in {binaryMode, netASCIIMode}
    /\ req.opts = <<>>

\* The number of DATA packets a transfer of n bytes takes at block size b:
\* ceil(n/b), and one more, empty, when n is a multiple of b.
ExpectedCount(n, b) == Ceil(n, b) + (IF n % b = 0 THEN 1 ELSE 0)

\* The i-th DATA of a transfer of n bytes at block size b.
ExpectedData(n, b, i) ==
    Data(i, (i - 1) * b, IF n - (i - 1) * b < b THEN n - (i - 1) * b ELSE b)

\* C1: in the session lineage (handleRRQ), on an RRQ without options for a
\* file of fileSize bytes, while every datagram the session receives is the
\* peer's ACK of the DATA sent last: the DATA packets sent are, in order,
\* those of blocks 1, 2, ... of the file at block size 512, to the peer; no
\* DATA(n+1) is sent before ACK(n) was received; there are never more than
\* ceil(N/512) of them plus the one empty DATA of an exact multiple; and once
\* all of them are acknowledged the session has ended without error, having
\* sent exactly that many.
C1_BlockProgression ==
    (PlainRRQ /\ clean) =>
        /\ pc \in {"rrq", "done"}
        /\ Len(sent) >= 1
        /\ Len(sent) <= ExpectedCount(fileSize, defaultBlockSize)
        /\ \A i \in 1..Len(sent) :
               sent[i] = Sent(ExpectedData(fileSize, defaultBlockSize, i), P)
        /\ Len(sent) = IF pc = "done" THEN acked ELSE acked + 1
        /\ (pc = "done") = (acked = ExpectedCount(fileSize, defaultBlockSize))
        /\ (pc = "done" => err = NoErr)
        /\ (pc = "done" /\ fileSize % defaultBlockSize = 0 =>
                sent[Len(sent)].d.len = 0)

\* A transfer of an exact multiple of the block size has ended: two full
\* blocks and the empty third one were sent and acknowledged.
C1_Witness ==
    /\ PlainRRQ
    /\ clean
    /\ pc = "done"
    /\ fileSize = 2 * defaultBlockSize
    /\ Len(sent) = 3
    /\ sent[3].d = Data(3, 2 * defaultBlockSize, 0)
    /\ acked = 3

\* C2: in the dispatcher lineage (Dispatch with HandleReadHandshake and
\* HandleReadAck), on an RRQ without options for an existing file of
\* fileSize bytes, while the peer ACKs each block exactly once: the
\* datagrams sent are, in order, DATA 1, 2, ... of the file at block size
\* 512, one empty DATA more for an exact multiple of 512, the empty file
\* being answered by the single empty DATA(1).
C2_DispatcherBlockProgression ==
    (PlainRRQ /\ clean) =>
        /\ Len(sent) >= 1
        /\ Len(sent) <= ExpectedCount(fileSize, defaultBlockSize)
        /\ Len(sent) <= acked + 1
        /\ \A i \in 1..Len(sent) :
               sent[i] = Sent(ExpectedData(fileSize, defaultBlockSize, i), P)

\* The step transmitted a DATA packet.
NewData == Len(sent') > Len(sent) /\ sent'[Len(sent')].d.op = dataReqOp

\* The step transmitted an ACK packet.
NewAck == Len(sent') > Len(sent) /\ sent'[Len(sent')].d.op = ackReqOp

\* C3: on RRQ, between sending DATA(n) and receiving ACK(n) the server emits
\* no other DATA packet, whatever arrives: a step of the dispatcher that
\* handles anything but ACK(n) while DATA(n) is outstanding transmits no
\* DATA of a block other than n.
C3_StopAndWait ==
    [][\A d \in DispatchDatagrams :
          (Dispatch(d) /\ req.op = readFileReqOp /\ outstanding # 0
             /\ d # Ack(outstanding))
          => ~(NewData /\ sent'[Len(sent')].d.block # outstanding)]_vars

\* The block the receiver of a WRQ waits for: the one after its last ACK,
\* block 1 after the OACK (0: it waits for none).
ExpectedBlock ==
    IF sent = <<>> THEN 0
    ELSE LET l == sent[Len(sent)].d
         IN IF l.op = ackReqOp THEN l.block + 1
            ELSE IF l.op = oackReqOp THEN 1 ELSE 0

\* A block shorter than the block size has been written.
FinalReceived == \E i \in 1..Len(writes) : writes[i].len < dpeer.blockSize

\* C4: on WRQ, before the final block has been received, a DATA(n) that
\* arrives while the session expects DATA(n+1) causes no write to the file
\* stream and no ACK.
C4_DuplicateSuppression ==
    [][\A d \in DispatchDatagrams :
          (Dispatch(d) /\ req.op = writeFileReqOp /\ d.op = dataReqOp
             /\ ExpectedBlock >= 1 /\ d.block = ExpectedBlock - 1
             /\ ~FinalReceived)
          => (writes' = writes /\ ~NewAck)]_vars

\* C5: a datagram that reaches the ephemeral socket of a session from an
\* address other than the peer's is ignored or answered with ERROR(5): it
\* changes nothing of the session.
C5_TIDIsolation ==
    [][\A d \in SessionDatagrams :
          SessionRecv(Q, d) =>
              /\ UNCHANGED <<pc, peer, blockID, lastN, finalACK, transferSize,
                             rcOff, err, writes>>
              /\ \/ sent' = sent
                 \/ sent' = Append(sent, Sent(Error(5, "unknown transfer id"), Q))]_vars

RecognizedNames == {blockSizeOptName, timeoutOptName, transferSizeOptName}

HasOpt(opts, name) == \E i \in 1..Len(opts) : opts[i].name = name
OptValue(opts, name) == opts[CHOOSE i \in 1..Len(opts) : opts[i].name = name].value

\* Every option value is one the options module accepts.
ValidOptions(opts) ==
    \A i \in 1..Len(opts) :
        /\ opts[i].value.num
        /\ opts[i].name = blockSizeOptName => opts[i].value.v >= minBlockSize
        /\ opts[i].name = timeoutOptName =>
               opts[i].value.v \in minTimeout..maxTimeout
        /\ opts[i].name = transferSizeOptName =>
               opts[i].value.v \in 0..maxTransferSize

Clamp(v) == Min(IF v < minBlockSize THEN minBlockSize ELSE v, maxBlockSize)

\* C6: an RRQ with blksize = v, v >= 8, is answered by an OACK whose blksize
\* is min(max(v, 8), 65464), and the DATA blocks that follow are of that
\* size (v = 1024 yields 1024).
C6_OptionClamp ==
    (/\ req.op = readFileReqOp /\ req.file = "f" /\ req.mode = binaryMode
     /\ ValidOptions(req.opts)
     /\ HasOpt(req.opts, blockSizeOptName)
     /\ pc # "listen") =>
        LET v == OptValue(req.opts, blockSizeOptName).v
        IN /\ sent # <<>>
           /\ sent[1].d.op = oackReqOp
           /\ HasOpt(sent[1].d.options, blockSizeOptName)
           /\ OptValue(sent[1].d.options, blockSizeOptName) = Clamp(v)
           /\ \A i \in 1..Len(sent) :
                  sent[i].d.op = dataReqOp =>
                      sent[i].d.off = (sent[i].d.block - 1) * Clamp(v)

\* C7: an RRQ with at least one recognized option is answered by an OACK
\* before any DATA, and DATA(1) is sent only once ACK(0) has arrived; an RRQ
\* without options is answered by DATA(1) and never by an OACK.
C7_OackBeforeData ==
    (/\ req.op = readFileReqOp /\ req.file = "f" /\ req.mode = binaryMode
     /\ ValidOptions(req.opts)
     /\ pc # "listen") =>
        /\ sent # <<>>
        /\ IF \E n \in RecognizedNames : HasOpt(req.opts, n)
           THEN /\ sent[1].d.op = oackReqOp
                /\ \A i \in 1..Len(sent) : sent[i].d.op = dataReqOp => i >= 2
                /\ pc = "negotiate" => Len(sent) = 1
           ELSE /\ sent[1].d.op = dataReqOp
                /\ sent[1].d.block = 1
                /\ \A i \in 1..Len(sent) : sent[i].d.op # oackReqOp

\* C8: a WRQ is answered by an OACK exactly when it carries a recognized
\* option that was accepted; the OACK has one entry for each recognized
\* option of the request and none for any other; otherwise the answer is
\* ACK(0).
C8_WrqOack ==
    (/\ req.op = writeFileReqOp /\ req.file = "new" /\ req.mode = binaryMode
     /\ ValidOptions(req.opts)
     /\ \A i \in 1..Len(req.opts) : req.opts[i].name \in RecognizedNames) =>
        /\ sent # <<>>
        /\ IF req.opts # <<>>
           THEN /\ sent[1].d.op = oackReqOp
                /\ Len(sent[1].d.options) = Len(req.opts)
                /\ \A n \in RecognizedNames :
                       HasOpt(sent[1].d.options, n) = HasOpt(req.opts, n)
           ELSE sent[1].d = Ack(0)

\* C9: a WRQ with blksize = 4 makes the server transmit ERROR(0, "invalid
\* blocksize opt") to the peer, and the handler's write-open is not called.
C9_InvalidBlksizeWrq ==
    (/\ req = Rq(writeFileReqOp, "new", binaryMode, <<Opt(blockSizeOptName, Num(4))>>)
     /\ pc # "listen") =>
        /\ sent = <<Sent(Error(0, errBlockSizeOpt), P)>>
        /\ opened = {}

\* C10: when the handler cannot open the file of an RRQ, handleRRQ
\* transmits an ERROR to the peer and ends, sending neither OACK nor DATA.
C10_OpenFailure ==
    (/\ req.op = readFileReqOp /\ req.file # "f" /\ req.mode = binaryMode
     /\ ValidOptions(req.opts)
     /\ pc # "listen") =>
        /\ pc = "done"
        /\ \E i \in 1..Len(sent) : sent[i].d.op = errorReqOp /\ sent[i].to = P
        /\ \A i \in 1..Len(sent) : sent[i].d.op \notin {oackReqOp, dataReqOp}

\* C11: in handleRRQ, when the wait for ACK(n) times out for the first time
\* after DATA(n) was sent, the server sends DATA(n) again and goes on
\* waiting: one lost DATA or ACK does not end the transfer.
C11_RetransmitOnTimeout ==
    [][(SessionTimeout /\ pc = "rrq" /\ clean) =>
          (pc' = "rrq" /\ sent' = Append(sent, sent[Len(sent)]))]_vars

\* C12: in handleWRQ the file stream receives one write per block, blocks
\* 1, 2, ... in order and each at the end of the previous one; once the
\* final block (shorter than the block size) has been written and ACKed,
\* the next datagram or the timeout ends the session without error and
\* without any write, and ACK(n) is sent again exactly when that datagram
\* is DATA(n).
C12_FinalAckOnce ==
    [][/\ req.op = writeFileReqOp =>
              \A i \in 1..Len(writes') :
                  /\ writes'[i].block = i
                  /\ writes'[i].off = IF i = 1 THEN 0
                                      ELSE writes'[i - 1].off + writes'[i - 1].len
       /\ pc = "wrqFinal" =>
              /\ pc' = "done" /\ err' = NoErr /\ writes' = writes
              /\ \A from \in {P, Q}, d \in SessionDatagrams :
                     SessionRecv(from, d) =>
                         sent' = IF d.op = dataReqOp /\ d.block = blockID
                                 THEN Append(sent, Sent(Ack(blockID), P))
                                 ELSE sent
              /\ SessionTimeout => sent' = sent]_vars

C12_Witness ==
    /\ req.op = writeFileReqOp /\ pc = "done" /\ err = NoErr
    /\ Len(writes) = 2 /\ writes[2].len < defaultBlockSize
    /\ Len(sent) = 4
    /\ sent[3] = Sent(Ack(2), P) /\ sent[4] = Sent(Ack(2), P)

\* C14: a datagram whose opcode is none of 1..6, received by a session after
\* the handshake, makes the session send an ERROR of code 4 to the peer and
\* end.
C14_IllegalOpcode ==
    [][SessionRecv(P, BadOp) =>
          /\ pc' = "done"
          /\ Len(sent') = Len(sent) + 1
          /\ sent'[Len(sent')].to = P
          /\ sent'[Len(sent')].d.op = errorReqOp
          /\ sent'[Len(sent')].d.code = 4]_vars

\* C13: once a session of the dispatcher that serves an RRQ has received
\* an ERROR packet, it sends nothing more and makes no further read or
\* write on its file streams, whatever arrives afterwards.
C13_ErrorTerminates ==
    [][(PlainRRQ /\ fileSize > 0 /\ errored) =>
          /\ sent' = sent
          /\ writes' = writes
          /\ dpeer'.readSeekCloser = dpeer.readSeekCloser
          /\ dpeer'.writeSeekCloser = dpeer.writeSeekCloser]_vars

\* C15: every session in the registry of the dispatcher was created for an
\* RRQ or a WRQ: a DATA, an ACK, an ERROR or a malformed datagram from an
\* address without a session creates none.
C15_SessionCreation ==
    \A a \in DOMAIN peerMap : peerMap[a].by \in {readFileReqOp, writeFileReqOp}

\* C16: a session of the dispatcher that was created for a request is out
\* of the registry as soon as the datagram that brought it an ERROR, or the
\* ACK of its final DATA, has been handled.
C16_DestroyedAtEnd ==
    \A a \in DOMAIN peerMap :
        peerMap[a].by \in {readFileReqOp, writeFileReqOp} =>
            (~peerMap[a].gotError /\ ~peerMap[a].final)

\* C17: while the server runs, a registered session that has been idle for
\* longer than its negotiated timeout is eventually removed from the
\* registry by the reaper, unless a packet for it arrives first.
C17_ReaperRemovesIdle ==
    \A a \in Addrs :
        (/\ a \in DOMAIN peerMap
         /\ expired(peerMap[a].idle, peerMap[a].peer.timeout))
        ~> (\/ a \in srv.reaped
            \/ (a \in DOMAIN peerMap /\ peerMap[a].idle = 0)
            \/ srv.closed)

C17_Witness ==
    /\ ~srv.closed
    /\ P \in srv.reaped /\ P \notin DOMAIN peerMap
    /\ Q \in DOMAIN peerMap /\ peerMap[Q].idle > 5 /\ Q \notin srv.reaped
    /\ \E i \in 1..Len(sent) :
           sent[i].to = P /\ sent[i].d.op = oackReqOp
           /\ OptValue(sent[i].d.options, timeoutOptName) = 5

\* Run, work and the reaper have all returned.
AllReturned ==
    srv.run = "returned" /\ srv.work = "returned" /\ srv.reaper = "returned"

\* C18: once Server.Close has been called on a server whose Run was
\* called, Run, work and the reaper all eventually return, whatever is
\* still queued in packetChan.
C18_CloseStopsAll ==
    (srv.closed /\ srv.run # "start") ~> AllReturned

C18_Witness ==
    srv.closed /\ AllReturned /\ queue # <<>>

\* C19: every datagram the client sends after its request goes to the
\* source address of the first datagram it received.
C19_ClientKeepsTID ==
    (client # NoClient /\ client.first # "none") =>
        \A i \in 2..Len(sent) : sent[i].to = client.first

\* C20: a Put or WriteFile of a source of fileSize bytes that has returned
\* without error, the server having acknowledged the request and then each
\* block once and in order, has sent DATA 1..floor(fileSize/512)+1 carrying
\* the source in order, all of 512 bytes but the last, which is shorter.
C20_PutSendsAll ==
    (/\ client # NoClient /\ client.op \in {"Put", "WriteFile"}
     /\ client.pc = "done" /\ client.err = NoErr /\ clean) =>
        /\ Len(sent) = (fileSize \div defaultBlockSize) + 2
        /\ \A i \in 2..Len(sent) :
               sent[i].d = Data(i - 1, (i - 2) * defaultBlockSize,
                                Min(defaultBlockSize,
                                    fileSize - (i - 2) * defaultBlockSize))

\* C21: Client.Get and Client.Put never wait out more than retryTime
\* timeouts in a row; the timeout that follows retryTime waited-out ones
\* makes the operation return the timeout error; and an operation that
\* receives nothing from the server does return with that error.
C21_ClientTimeoutBounded ==
    /\ [](client # NoClient => client.retry <= retryTime)
    /\ [][(ClientTimeout /\ client.op \in {"Get", "Put"}) =>
            IF client.retry < retryTime
            THEN client'.pc = client.pc /\ client'.retry = client.retry + 1
            ELSE client'.pc = "done" /\ client'.err = errIOTimeout]_vars
    /\ \A op \in {"Get", "Put"} :
         (client # NoClient /\ client.op = op /\ client.first = "none")
            ~> (/\ client # NoClient
                /\ \/ client.first # "none"
                   \/ client.pc = "done" /\ client.err = errIOTimeout)

C21_Witness ==
    /\ client # NoClient /\ client.op \in {"Get", "Put"}
    /\ client.first = "none" /\ client.retry = retryTime
    /\ client.pc = "done" /\ client.err = errIOTimeout
    /\ Len(sent) = 1

\* C22: decoding the encoding of a packet yields, without error, a packet
\* with the same fields, the option fields of an RRQ or WRQ included.
C22_CodecRoundTrip ==
    codec.pc = "decoded" =>
        codec.resp.err = NoErr /\ codec.resp.p = codec.packet

\* C23: an RRQ of the existing file that carries tsize = 0 is answered by
\* an OACK with a tsize entry whose value is the size in bytes of the file.
C23_TsizeReply ==
    (/\ req.op = readFileReqOp /\ req.file = "f" /\ req.mode = binaryMode
     /\ ValidOptions(req.opts)
     /\ HasOpt(req.opts, transferSizeOptName)
     /\ OptValue(req.opts, transferSizeOptName) = Num(0)
     /\ pc # "listen") =>
        \E i \in 1..Len(sent) :
            /\ sent[i].d.op = oackReqOp
            /\ \E k \in 1..Len(sent[i].d.options) :
                   sent[i].d.options[k] = Opt(transferSizeOptName, fileSize)

\* C24: every DATA(n) the dispatcher session sends carries the bytes of the
\* file being read that lie at offsets [(n-1)*blockSize, n*blockSize),
\* whatever datagrams the peer has sent, a repeated RRQ included.
C24_DataOffsets ==
    [][(Len(sent') = Len(sent) + 1 /\ sent'[Len(sent')].d.op = dataReqOp) =>
        LET x == sent'[Len(sent')].d
            size == SizeOf(dpeer'.readSeekCloser.file, writes')
            at == (x.block - 1) * dpeer'.blockSize
        IN /\ x.off = at
           /\ x.len = Min(dpeer'.blockSize, IF at < size THEN size - at ELSE 0)]_vars

\* C25: work never hands a packet to a session that the reaper has closed
\* and deleted from the registry.
C25_NoDispatchAfterReap == ~srv.stale

\* C26: when the dispatcher session answers an RRQ with a DATA, the DATA is
\* read from the file the RRQ names, also when an earlier request of the
\* same address named another file.
C26_ServesNamedFile ==
    [][\A d \in DispatchDatagrams :
          (/\ Dispatch(d)
           /\ d.op = readFileReqOp
           /\ Len(sent') = Len(sent) + 1
           /\ sent'[Len(sent')].d.op = dataReqOp) =>
              dpeer'.readSeekCloser.file = d.file]_vars

\* C27: a dispatcher session never has both its read stream and its write
\* stream populated, whatever RRQ and WRQ datagrams its address sends.
C27_OneStream ==
    ~(dpeer.readSeekCloser.open /\ dpeer.writeSeekCloser.open)

\* C28: the block-id of every DATA the server sends is nonzero: the 16-bit
\* block-id never wraps around to 0, whatever block-id an ACK carries.
C28_BlockIdNonzero ==
    \A i \in 1..Len(sent) : sent[i].d.op = dataReqOp => sent[i].d.block # 0

\* C29: a request whose timeout option is an integer outside 1..255 is
\* rejected: the session ends with an error, having sent nothing but
\* ERROR packets, and the value is not the session's timeout.
C29_TimeoutRange ==
    (/\ req.op \in {readFileReqOp, writeFileReqOp}
     /\ HasOpt(req.opts, timeoutOptName)
     /\ OptValue(req.opts, timeoutOptName).num
     /\ OptValue(req.opts, timeoutOptName).v \notin minTimeout..maxTimeout
     /\ pc # "listen") =>
        /\ pc = "done" /\ err # NoErr
        /\ \A i \in 1..Len(sent) : sent[i].d.op = errorReqOp
        /\ peer.readTimeout # OptValue(req.opts, timeoutOptName).v

\* The packets of log that came from address a, in order.
FromAddr(log, a) == SelectSeq(log, LAMBDA r : r.remoteAddr = a)

IsPrefix(x, y) == Len(x) <= Len(y) /\ SubSeq(y, 1, Len(x)) = x

\* C30: the packets of one remote address are dispatched one at a time and
\* in the order Run read them: what has been dispatched is, address by
\* address, a prefix of what has been read, and the packet work holds is
\* the next one.
C30_ArrivalOrder ==
    \A a \in Addrs :
        LET inWork == IF srv.work = "dispatch" THEN <<srv.r>> ELSE <<>>
        IN IsPrefix(FromAddr(srv.handled \o inWork, a), FromAddr(srv.read, a))

C30_Witness ==
    /\ Len(FromAddr(srv.handled, P)) = 2
    /\ srv.handled[1] # srv.handled[2]
    /\ srv.handled = srv.read

\* C31: a request whose only option has a name other than blksize, timeout
\* and tsize is served as if it had no option: an RRQ of the existing file
\* is answered by DATA(1), a WRQ of a new file by ACK(0); no ERROR, no OACK.
C31_UnknownOptionIgnored ==
    (/\ req.op \in {readFileReqOp, writeFileReqOp}
     /\ req.file = (IF req.op = readFileReqOp THEN "f" ELSE "new")
     /\ req.mode = binaryMode
     /\ req.opts # <<>>
     /\ \A i \in 1..Len(req.opts) : req.opts[i].name \notin RecognizedNames
     /\ sent # <<>>) =>
        sent[1].d = (IF req.op = readFileReqOp
                     THEN Data(1, 0, Min(fileSize, defaultBlockSize))
                     ELSE Ack(0))

\* C32: a WRQ that announces a tsize above maxTransferSize is rejected:
\* the server sends an ERROR, sends no OACK and no ACK, and writes no DATA
\* to the file.
C32_TsizeTooBig ==
    (/\ req.op = writeFileReqOp
     /\ HasOpt(req.opts, transferSizeOptName)
     /\ OptValue(req.opts, transferSizeOptName).num
     /\ OptValue(req.opts, transferSizeOptName).v > maxTransferSize
     /\ pc # "listen") =>
        /\ sent # <<>>
        /\ \A i \in 1..Len(sent) : sent[i].d.op = errorReqOp
        /\ writes = <<>>

\* C33: an ERROR datagram with the 2-byte code 1 and the message "msg"
\* decodes to code 1 and message "msg", and the encoding of an ERROR packet
\* has exactly 2 code bytes between the opcode and the message.
C33_ErrorCodec ==
    /\ (codec.pc = "received" /\ codec.bytes[1] = Error(1, <<109, 115, 103>>)) =>
           /\ codec.resp.err = NoErr
           /\ codec.resp.p.type = "errorPacket"
           /\ codec.resp.p.code = 1
           /\ codec.resp.p.msg = <<109, 115, 103>>
    /\ (codec.pc = "encoded" /\ codec.packet.type = "errorPacket") =>
           Len(errorBody(codec.bytes[1])) = 2 + Len(codec.packet.msg) + 1

\* C34: Server.Run goes on reading after a read timeout, and returns an
\* error to its caller when the read fails with an error that is no
\* timeout.
C34_RunReturnsOnError ==
    [][/\ ListenTimeout => (listener'.pc = "read" /\ listener'.err = NoErr)
       /\ ListenError => (listener'.pc = "returned" /\ listener'.err # NoErr)]_vars

\* A stream of the session is open and its Close has not been called.
streamOpen(p) ==
    \/ /\ p.readSeekCloser.open /\ ~p.readSeekCloser.nilFile
       /\ ~p.readSeekCloser.closed
    \/ /\ p.writeSeekCloser.open /\ ~p.writeSeekCloser.nilFile
       /\ ~p.writeSeekCloser.closed

\* C35: every file stream that a session of the dispatcher has opened is
\* closed in the end, those of the sessions still registered when
\* Server.Close is called included: once removeClientPeer, the only caller
\* of clientPeer.Close, has returned, no registered session holds an open
\* stream.
C35_StreamsClosed ==
    srv.reaper = "returned" =>
        \A a \in DOMAIN peerMap : ~streamOpen(peerMap[a].peer)

\* C36: Server.Close closes the done channel at most once: of several
\* calls, one after another or at the same time, all but one return nil
\* and none closes done a second time.
C36_CloseOnce ==
    srv.closes <= 1 /\ ~closePanicked

\* Get has returned nil.
GetDone ==
    client # NoClient /\ client.op = "Get" /\ client.pc = "done"
    /\ client.err = NoErr

\* C37: when Get returns nil against a server that sends DATA(n+1) only
\* in answer to ACK(n), every block of the file from 1 to the final short
\* block that Get received has been written to the writer, at offset
\* (block - 1) * 512, whatever the network duplicated.
C37_GetWritesAll ==
    GetDone =>
        \A b \in 1..client.blockID :
            \E i \in 1..Len(writes) :
                /\ writes[i].block = b
                /\ writes[i].off = (b - 1) * 512
                /\ writes[i].src = (b - 1) * 512

\* C38: in both servers the block size of a session lies in 8..512
\* whatever blksize was asked for, so that a DATA of the server carries at
\* most 512 bytes: 516 bytes with its header, within the buffers of 1024.
C38_BlockSizeRange ==
    /\ peer.blockSize \in minBlockSize..defaultBlockSize
    /\ dpeer.blockSize \in minBlockSize..defaultBlockSize
    /\ \A i \in 1..Len(sent) :
           sent[i].d.op = dataReqOp => 4 + sent[i].d.len <= 516

\* The dispatcher has taken the smallest block size, 8, and sent a DATA of
\* 8 bytes.
C38_Witness ==
    /\ dpeer.blockSize = minBlockSize
    /\ \E i \in 1..Len(sent) : sent[i].d.op = dataReqOp /\ sent[i].d.len = minBlockSize

====
